---- MODULE Spec2Model ----
(***************************************************************************)
(* Model of the federal income-tax calculation pipeline (tax year 2024).   *)
(*                                                                         *)
(* Money is a Decimal in the source; here every amount is an integer       *)
(* number of cents, a rate is a numerator over a power of ten, and         *)
(* Decimal.quantize(0.01, ROUND_HALF_UP) is the operator Quantize, which   *)
(* rounds an exact fraction of cents to whole cents.  An effective rate is *)
(* an integer number of millionths (quantize to 0.000001).                 *)
(***************************************************************************)
EXTENDS Integers, Sequences, FiniteSets, TLC

(***************************************************************************)
(* Bounds of the explored input space.                                     *)
(***************************************************************************)
\* incomes are explored up to MaxDelta cents on both sides of each threshold
MaxDelta == 4

\* preferential amounts of 1..MaxAmountCents cents are explored besides the large ones
MaxAmountCents == 5

\* returns claim 0..MaxChildren qualifying children
MaxChildren == 2

(***************************************************************************)
(* Decimal arithmetic.                                                     *)
(***************************************************************************)
None == -1

Max(a, b) == IF a >= b THEN a ELSE b

Min(a, b) == IF a <= b THEN a ELSE b

\* ROUND_HALF_UP of the fraction n/d (d > 0) to an integer: ties go away from zero.
RoundHalfUp(n, d) ==
  IF n >= 0 THEN (2 * n + d) \div (2 * d)
            ELSE 0 - ((2 * (0 - n) + d) \div (2 * d))

\* (cents * num / den).quantize(TWO_PLACES, ROUND_HALF_UP) for cents >= 0.
\* The whole multiples of den are multiplied out exactly first so that the
\* product stays inside the checker's integer range.
Quantize(cents, num, den) ==
  (cents \div den) * num + RoundHalfUp((cents % den) * num, den)

RECURSIVE LongDivide(_, _, _, _)
\* k further decimal digits of rem/den appended to acc; rem < den
LongDivide(rem, den, k, acc) ==
  IF k = 0 THEN [q |-> acc, r |-> rem]
  ELSE LongDivide((rem * 10) % den, den, k - 1, acc * 10 + ((rem * 10) \div den))

\* (num / den).quantize(Decimal("0.000001"), ROUND_HALF_UP) in millionths,
\* for num >= 0 and den > 0
QuantizeRate(num, den) ==
  LET d == LongDivide(num % den, den, 6, num \div den)
  IN  d.q + (IF 2 * d.r >= den THEN 1 ELSE 0)

RECURSIVE GCD(_, _)
GCD(a, b) == IF b = 0 THEN a ELSE GCD(b, a % b)

RECURSIVE StripFactor(_, _)
StripFactor(n, f) == IF n > 0 /\ n % f = 0 THEN StripFactor(n \div f, f) ELSE n

\* num/den (den > 0) has a finite decimal expansion, so Decimal division is exact
ExactQuotient(num, den) ==
  StripFactor(StripFactor(den \div GCD(num, den), 2), 5) = 1

RECURSIVE MulDivMod(_, _, _)
\* quotient and remainder of a*b by c for a, b >= 0 and c > 0, by doubling,
\* so that no intermediate value exceeds 2*c + a
MulDivMod(a, b, c) ==
  IF b = 0 THEN [q |-> 0, r |-> 0]
  ELSE LET h == MulDivMod(a, b \div 2, c)
           q2 == 2 * h.q + ((2 * h.r) \div c)
           r2 == (2 * h.r) % c
       IN  IF b % 2 = 0 THEN [q |-> q2, r |-> r2]
           ELSE [q |-> q2 + (a \div c) + ((r2 + (a % c)) \div c),
                 r |-> (r2 + (a % c)) % c]

(***************************************************************************)
(* data/tax_year_2024.py                                                   *)
(***************************************************************************)
SINGLE == "SINGLE"
MFJ == "MARRIED_FILING_JOINTLY"
MFS == "MARRIED_FILING_SEPARATELY"
HOH == "HEAD_OF_HOUSEHOLD"
QSS == "QUALIFYING_SURVIVING_SPOUSE"

FilingStatus == {SINGLE, MFJ, MFS, HOH, QSS}

\* upper bounds in cents, rates in percent; None marks the unbounded bracket
Bracket(upperDollars, ratePct) ==
  [upper_bound |-> IF upperDollars = None THEN None ELSE upperDollars * 100,
   rate |-> ratePct]

FEDERAL_BRACKETS ==
  [fs \in FilingStatus |->
     CASE fs = SINGLE ->
            << Bracket(11600, 10), Bracket(47150, 12), Bracket(100525, 22),
               Bracket(191950, 24), Bracket(243725, 32), Bracket(609350, 35),
               Bracket(None, 37) >>
       [] fs = MFJ ->
            << Bracket(23200, 10), Bracket(94300, 12), Bracket(201050, 22),
               Bracket(383900, 24), Bracket(487450, 32), Bracket(731200, 35),
               Bracket(None, 37) >>
       [] fs = MFS ->
            << Bracket(11600, 10), Bracket(47150, 12), Bracket(100525, 22),
               Bracket(191950, 24), Bracket(243725, 32), Bracket(365600, 35),
               Bracket(None, 37) >>
       [] fs = HOH ->
            << Bracket(16550, 10), Bracket(63100, 12), Bracket(100500, 22),
               Bracket(191950, 24), Bracket(243700, 32), Bracket(609350, 35),
               Bracket(None, 37) >>
       [] fs = QSS ->
            << Bracket(23200, 10), Bracket(94300, 12), Bracket(201050, 22),
               Bracket(383900, 24), Bracket(487450, 32), Bracket(731200, 35),
               Bracket(None, 37) >> ]

CAPITAL_GAINS_THRESHOLDS ==
  [fs \in FilingStatus |->
     CASE fs = SINGLE -> << Bracket(47025, 0), Bracket(518900, 15), Bracket(None, 20) >>
       [] fs = MFJ -> << Bracket(94050, 0), Bracket(583750, 15), Bracket(None, 20) >>
       [] fs = MFS -> << Bracket(47025, 0), Bracket(291850, 15), Bracket(None, 20) >>
       [] fs = HOH -> << Bracket(63000, 0), Bracket(551350, 15), Bracket(None, 20) >>
       [] fs = QSS -> << Bracket(94050, 0), Bracket(583750, 15), Bracket(None, 20) >> ]

(***************************************************************************)
(* A raised exception is a record with the single field error.             *)
(***************************************************************************)
ValueError == [error |-> "ValueError"]

ValidationError == [error |-> "ValidationError"]

IsError(r) == "error" \in DOMAIN r

(***************************************************************************)
(* tools/calculate_bracket_tax.py                                          *)
(***************************************************************************)
\* the loop goes on to a bracket only while income lies above its lower bound
BracketTouchedMutant(taxable_income, prev_top) == taxable_income >= prev_top

BracketTouched(taxable_income, prev_top) == taxable_income > prev_top

TaxableInBracket(taxable_income, upper_bound, prev_top) ==
  IF upper_bound = None THEN taxable_income - prev_top
  ELSE Min(taxable_income, upper_bound) - prev_top

TaxInBracketMutant(taxable_in_bracket, rate) == (taxable_in_bracket * rate) \div 100

TaxInBracket(taxable_in_bracket, rate) == Quantize(taxable_in_bracket, rate, 100)

BracketDetailMutant(rate, bracket_bottom, bracket_top, taxable_in_bracket, tax_in_bracket) ==
  [rate |-> rate, bracket_bottom |-> bracket_bottom, bracket_top |-> bracket_top,
   taxable_in_bracket |-> taxable_in_bracket,
   tax_in_bracket |-> (taxable_in_bracket * rate) \div 100]

BracketDetail(rate, bracket_bottom, bracket_top, taxable_in_bracket, tax_in_bracket) ==
  [rate |-> rate, bracket_bottom |-> bracket_bottom, bracket_top |-> bracket_top,
   taxable_in_bracket |-> taxable_in_bracket, tax_in_bracket |-> tax_in_bracket]

AccumulateTaxMutant(total_tax, tax_in_bracket) == tax_in_bracket

\* total_tax += tax_in_bracket
AccumulateTax(total_tax, tax_in_bracket) == total_tax + tax_in_bracket

EffectiveRate(total_tax, taxable_income) ==
  IF taxable_income > 0 THEN QuantizeRate(total_tax, taxable_income) ELSE 0

RECURSIVE BracketLoop(_, _, _, _)
\* the for loop over the bracket table, from table position i with loop state st
BracketLoop(brackets, i, taxable_income, st) ==
  IF i > Len(brackets) \/ ~BracketTouched(taxable_income, st.prev_top) THEN st
  ELSE LET upper_bound == brackets[i].upper_bound
           rate == brackets[i].rate
           taxable_in_bracket == TaxableInBracket(taxable_income, upper_bound, st.prev_top)
           tax_in_bracket == TaxInBracket(taxable_in_bracket, rate)
       IN  BracketLoop(brackets, i + 1, taxable_income,
             [breakdown |-> Append(st.breakdown,
                              BracketDetail(rate, st.prev_top, upper_bound,
                                            taxable_in_bracket, tax_in_bracket)),
              total_tax |-> AccumulateTax(st.total_tax, tax_in_bracket),
              marginal_rate |-> rate,
              prev_top |-> IF upper_bound # None THEN upper_bound ELSE taxable_income])

\* calculate_bracket_tax: a BracketTaxResult, or ValueError for a negative income
calculate_bracket_tax(taxable_income, filing_status) ==
  IF taxable_income < 0 THEN ValueError ELSE
  LET st == BracketLoop(FEDERAL_BRACKETS[filing_status], 1, taxable_income,
                        [breakdown |-> << >>, total_tax |-> 0,
                         marginal_rate |-> 10, prev_top |-> 0])
  IN  [taxable_income |-> taxable_income,
       filing_status |-> filing_status,
       total_tax |-> Quantize(st.total_tax, 1, 1),
       effective_rate |-> EffectiveRate(st.total_tax, taxable_income),
       marginal_rate |-> st.marginal_rate,
       breakdown |-> st.breakdown]

(***************************************************************************)
(* tools/preferential_rate.py                                              *)
(***************************************************************************)
RoomInTierMutant(upper_bound, income_so_far, remaining) ==
  IF upper_bound = None THEN remaining ELSE upper_bound

\* room left in the tier above the income already placed
RoomInTier(upper_bound, income_so_far, remaining) ==
  IF upper_bound = None THEN remaining ELSE Max(upper_bound - income_so_far, 0)

PreferentialRateDetail(rate, bracket_bottom, bracket_top, taxable_in_bracket, tax_in_bracket) ==
  [rate |-> rate, bracket_bottom |-> bracket_bottom, bracket_top |-> bracket_top,
   taxable_in_bracket |-> taxable_in_bracket, tax_in_bracket |-> tax_in_bracket]

RECURSIVE PreferentialLoop(_, _, _)
\* the for loop over the threshold table, from table position i with loop state st
PreferentialLoop(thresholds, i, st) ==
  IF i > Len(thresholds) \/ st.remaining <= 0 THEN st
  ELSE LET upper_bound == thresholds[i].upper_bound
           rate == thresholds[i].rate
           room == RoomInTier(upper_bound, st.income_so_far, st.remaining)
       IN  IF room <= 0
           THEN PreferentialLoop(thresholds, i + 1,
                  [st EXCEPT !.income_so_far =
                     Max(st.income_so_far,
                         IF upper_bound # None /\ upper_bound # 0
                         THEN upper_bound ELSE st.income_so_far)])
           ELSE LET taxable_in_bracket == Min(st.remaining, room)
                    tax_in_bracket == Quantize(taxable_in_bracket, rate, 100)
                IN  PreferentialLoop(thresholds, i + 1,
                      [breakdown |-> Append(st.breakdown,
                                       PreferentialRateDetail(rate, st.income_so_far,
                                         upper_bound, taxable_in_bracket, tax_in_bracket)),
                       total_tax |-> st.total_tax + tax_in_bracket,
                       remaining |-> st.remaining - taxable_in_bracket,
                       income_so_far |-> st.income_so_far + taxable_in_bracket])

\* calculate_preferential_rate_tax: the pair (total_tax, breakdown) as a record
calculate_preferential_rate_tax(amount, ordinary_income, filing_status) ==
  IF amount <= 0 THEN [tax |-> 0, breakdown |-> << >>]
  ELSE LET st == PreferentialLoop(CAPITAL_GAINS_THRESHOLDS[filing_status], 1,
                   [breakdown |-> << >>, total_tax |-> 0,
                    remaining |-> amount, income_so_far |-> ordinary_income])
       IN  [tax |-> Quantize(st.total_tax, 1, 1), breakdown |-> st.breakdown]

(***************************************************************************)
(* tools/apply_credit.py                                                   *)
(***************************************************************************)
apply_creditMutant(tax_owed, credit_amount, is_refundable) ==
  IF credit_amount < 0 THEN ValueError
  ELSE [tax_before |-> Quantize(tax_owed, 1, 1),
        credit_applied |-> Quantize(credit_amount, 1, 1),
        tax_after |-> RoundHalfUp(tax_owed - credit_amount, 1)]

\* apply_credit: a CreditResult, or ValueError for a negative credit_amount
apply_credit(tax_owed, credit_amount, is_refundable) ==
  IF credit_amount < 0 THEN ValueError
  ELSE LET tax_after == IF ~is_refundable THEN Max(tax_owed - credit_amount, 0)
                        ELSE tax_owed - credit_amount
       IN  [tax_before |-> RoundHalfUp(tax_owed, 1),
            credit_applied |-> RoundHalfUp(tax_owed - tax_after, 1),
            tax_after |-> RoundHalfUp(tax_after, 1)]

(***************************************************************************)
(* workflows/credits_workflow.py                                           *)
(***************************************************************************)
CHILD_TAX_CREDIT_MAX == 200000

CHILD_TAX_CREDIT_REFUNDABLE == 170000

CHILD_TAX_CREDIT_PHASEOUT ==
  [fs \in FilingStatus |-> IF fs \in {MFJ, QSS} THEN 40000000 ELSE 20000000]

\* (excess / Decimal("1000")).to_integral_value(rounding=ROUND_HALF_UP)
PhaseoutUnits(excess) == RoundHalfUp(excess, 100000)

\* _calculate_child_tax_credit
CalculateChildTaxCredit(num_children, agi, filing_status) ==
  IF num_children <= 0 THEN 0
  ELSE LET max_credit == CHILD_TAX_CREDIT_MAX * num_children
           threshold == CHILD_TAX_CREDIT_PHASEOUT[filing_status]
           excess == Max(agi - threshold, 0)
           phaseout_units == PhaseoutUnits(excess)
           phaseout == Quantize(phaseout_units * 5000, 1, 1)
       IN  Max(max_credit - phaseout, 0)

RefundableAmountMutant(unused_ctc, refundable_cap) == unused_ctc

\* min(unused_ctc, refundable_cap)
RefundableAmount(unused_ctc, refundable_cap) == Min(unused_ctc, refundable_cap)

\* the local variables of run_credits_workflow after its two apply_credit calls
CreditsWorkflowLocals(num_qualifying_children, agi, filing_status, total_income_tax) ==
  LET total_tax == total_income_tax
      ctc_total == CalculateChildTaxCredit(num_qualifying_children, agi, filing_status)
      nonrefundable_result == apply_credit(total_tax, ctc_total, FALSE)
      nonrefundable_applied == nonrefundable_result.credit_applied
      tax_after_nonrefundable == nonrefundable_result.tax_after
      unused_ctc == ctc_total - nonrefundable_applied
      refundable_cap == CHILD_TAX_CREDIT_REFUNDABLE * num_qualifying_children
      refundable_amount == RefundableAmount(unused_ctc, refundable_cap)
      refundable_result == apply_credit(tax_after_nonrefundable, refundable_amount, TRUE)
  IN  [ctc_total |-> ctc_total,
       nonrefundable_result |-> nonrefundable_result,
       refundable_amount |-> refundable_amount,
       refundable_result |-> refundable_result]

\* run_credits_workflow, on the fields of its arguments that it reads
run_credits_workflow(num_qualifying_children, agi, filing_status, total_income_tax) ==
  LET l == CreditsWorkflowLocals(num_qualifying_children, agi, filing_status,
                                 total_income_tax)
      nonrefundable_applied == l.nonrefundable_result.credit_applied
      refundable_applied == l.refundable_result.credit_applied
      total_credits == nonrefundable_applied + refundable_applied
      tax_after == l.refundable_result.tax_after
  IN  [child_tax_credit |-> RoundHalfUp(l.ctc_total, 1),
       nonrefundable_ctc_applied |-> RoundHalfUp(nonrefundable_applied, 1),
       refundable_ctc_applied |-> RoundHalfUp(refundable_applied, 1),
       total_credits_applied |-> RoundHalfUp(total_credits, 1),
       tax_after_credits |-> RoundHalfUp(tax_after, 1)]

(***************************************************************************)
(* tools/lookup_standard_deduction.py                                      *)
(***************************************************************************)
STANDARD_DEDUCTION ==
  [fs \in FilingStatus |->
     CASE fs = SINGLE -> 1460000
       [] fs = MFJ -> 2920000
       [] fs = MFS -> 1460000
       [] fs = HOH -> 2190000
       [] fs = QSS -> 2920000]

ADDITIONAL_DEDUCTION_SINGLE_HOH == 195000

ADDITIONAL_DEDUCTION_MARRIED == 155000

SINGLE_HOH == {SINGLE, HOH}

BoolToInt(b) == IF b THEN 1 ELSE 0

PerConditionAmountMutant(filing_status) ==
  IF filing_status \in {SINGLE, HOH, MFS}
  THEN ADDITIONAL_DEDUCTION_SINGLE_HOH
  ELSE ADDITIONAL_DEDUCTION_MARRIED

\* the additional deduction per qualifying condition
PerConditionAmount(filing_status) ==
  IF filing_status \in SINGLE_HOH
  THEN ADDITIONAL_DEDUCTION_SINGLE_HOH
  ELSE ADDITIONAL_DEDUCTION_MARRIED

lookup_standard_deduction(filing_status, is_blind, is_over_65) ==
  LET base == STANDARD_DEDUCTION[filing_status]
      per_condition == PerConditionAmount(filing_status)
      qualifying_conditions == BoolToInt(is_blind) + BoolToInt(is_over_65)
      additional == per_condition * qualifying_conditions
  IN  [filing_status |-> filing_status, base_amount |-> base,
       additional_amount |-> additional, total_deduction |-> base + additional]

(***************************************************************************)
(* workflows/deduction_workflow.py                                         *)
(* An optional record (ItemizedDeductions | None) is a sequence of length  *)
(* at most one: << >> is None.                                             *)
(***************************************************************************)
SALT_CAP_DEFAULT == 1000000

SALT_CAP_MFS == 500000

SaltCapMutant(filing_status) == SALT_CAP_DEFAULT

SaltCap(filing_status) ==
  IF filing_status = MFS THEN SALT_CAP_MFS ELSE SALT_CAP_DEFAULT

\* _compute_itemized_total
ComputeItemizedTotal(tax_return, agi) ==
  IF tax_return.itemized_deductions = << >> THEN 0
  ELSE LET item == tax_return.itemized_deductions[1]
           medical_floor == Quantize(agi, 75, 1000)
           medical_deduction == Max(item.medical - medical_floor, 0)
           salt_cap == SaltCap(tax_return.filing_status)
           salt_deduction == Min(item.state_and_local_taxes, salt_cap)
           total == medical_deduction + salt_deduction + item.mortgage_interest
                      + item.charitable + item.casualty + item.other
       IN  Quantize(total, 1, 1)

\* (pref_qualified_divs * (taxable_income / total_preferential)).quantize(...).
\* The quotient is a Decimal of 28 significant digits: when it is not exact and
\* the exact product lies half-way between two cents, the rounded product falls
\* on either side, according to quotient_rounded_down.
ScaledQualifiedDividends(pref_qualified_divs, taxable_income, total_preferential, quotient_rounded_down) ==
  LET p == MulDivMod(pref_qualified_divs, taxable_income, total_preferential)
  IN  IF 2 * p.r > total_preferential THEN p.q + 1
      ELSE IF 2 * p.r < total_preferential THEN p.q
      ELSE IF ExactQuotient(taxable_income, total_preferential) \/ ~quotient_rounded_down
           THEN p.q + 1
           ELSE p.q

CappedLongTermGainsMutant(taxable_income, pref_qualified_divs, pref_ltcg, total_preferential) ==
  LET p == MulDivMod(pref_ltcg, taxable_income, total_preferential)
  IN  p.q + (IF 2 * p.r >= total_preferential THEN 1 ELSE 0)

\* the capped long-term gains are what is left of taxable income
CappedLongTermGains(taxable_income, pref_qualified_divs, pref_ltcg, total_preferential) ==
  RoundHalfUp(taxable_income - pref_qualified_divs, 1)

UsedStandardMutant(force_standard_deduction, itemized_deductions, itemized_total, standard_amount) ==
  IF force_standard_deduction THEN TRUE
  ELSE IF itemized_deductions # << >> /\ itemized_total >= standard_amount THEN FALSE
       ELSE TRUE

\* choose the higher deduction unless the standard deduction is forced
UsedStandard(force_standard_deduction, itemized_deductions, itemized_total, standard_amount) ==
  IF force_standard_deduction THEN TRUE
  ELSE IF itemized_deductions # << >> /\ itemized_total > standard_amount THEN FALSE
       ELSE TRUE

\* the StandardDeductionResult and the itemized total run_deduction_workflow
\* computes before it chooses
DeductionWorkflowLocals(tax_return, agi_result) ==
  [std_result |-> lookup_standard_deduction(tax_return.filing_status,
                    tax_return.is_blind, tax_return.is_over_65),
   itemized_total |-> ComputeItemizedTotal(tax_return, agi_result.agi)]

run_deduction_workflow(tax_return, income, agi_result, quotient_rounded_down) ==
  LET std_result == lookup_standard_deduction(tax_return.filing_status,
                      tax_return.is_blind, tax_return.is_over_65)
      standard_amount == std_result.total_deduction
      itemized_total == ComputeItemizedTotal(tax_return, agi_result.agi)
      used_standard ==
        UsedStandard(tax_return.force_standard_deduction, tax_return.itemized_deductions,
                     itemized_total, standard_amount)
      deduction_amount == IF used_standard THEN standard_amount ELSE itemized_total
      taxable_income == Max(agi_result.agi - deduction_amount, 0)
      qualified_divs == income.qualified_dividends
      ltcg == Max(income.long_term_gains, 0)
      total_preferential == qualified_divs + ltcg
      capped == total_preferential > taxable_income /\ total_preferential > 0
      pref_qualified_divs ==
        IF capped
        THEN ScaledQualifiedDividends(qualified_divs, taxable_income,
                                      total_preferential, quotient_rounded_down)
        ELSE qualified_divs
      pref_ltcg ==
        IF capped
        THEN CappedLongTermGains(taxable_income, pref_qualified_divs, ltcg,
                                 total_preferential)
        ELSE ltcg
      ordinary_taxable == Max(taxable_income - pref_qualified_divs - pref_ltcg, 0)
  IN  [standard_deduction_amount |-> RoundHalfUp(standard_amount, 1),
       itemized_total |-> RoundHalfUp(itemized_total, 1),
       used_standard |-> used_standard,
       deduction_amount |-> RoundHalfUp(deduction_amount, 1),
       taxable_income |-> RoundHalfUp(taxable_income, 1),
       ordinary_taxable_income |-> RoundHalfUp(ordinary_taxable, 1),
       preferential_qualified_dividends |-> RoundHalfUp(pref_qualified_divs, 1),
       preferential_long_term_gains |-> RoundHalfUp(pref_ltcg, 1)]

(***************************************************************************)
(* tools/calculate_qualified_dividend_tax.py, calculate_capital_gains_tax.py *)
(***************************************************************************)
calculate_qualified_dividend_tax(qualified_dividends, ordinary_income, filing_status) ==
  IF qualified_dividends < 0 THEN ValueError
  ELSE IF ordinary_income < 0 THEN ValueError
  ELSE LET r == calculate_preferential_rate_tax(qualified_dividends, ordinary_income,
                                                filing_status)
       IN  [qualified_dividends |-> qualified_dividends, tax |-> r.tax,
            breakdown |-> r.breakdown]

calculate_capital_gains_tax(short_term_gains, long_term_gains, ordinary_income, filing_status) ==
  IF ordinary_income < 0 THEN ValueError
  ELSE LET r == calculate_preferential_rate_tax(long_term_gains, ordinary_income,
                                                filing_status)
       IN  [short_term_gains |-> short_term_gains, long_term_gains |-> long_term_gains,
            long_term_tax |-> r.tax, breakdown |-> r.breakdown]

(***************************************************************************)
(* tools/calculate_niit.py                                                 *)
(***************************************************************************)
NIIT_THRESHOLDS ==
  [fs \in FilingStatus |->
     CASE fs = SINGLE -> 20000000
       [] fs = MFJ -> 25000000
       [] fs = MFS -> 12500000
       [] fs = HOH -> 20000000
       [] fs = QSS -> 25000000]

calculate_niitMutant(magi, net_investment_income, filing_status) ==
  IF magi < 0 THEN ValueError
  ELSE LET threshold == NIIT_THRESHOLDS[filing_status]
           excess_magi == Max(magi - threshold, 0)
           taxable_base == Min(net_investment_income, excess_magi)
       IN  [magi |-> magi, threshold |-> threshold, excess_magi |-> excess_magi,
            net_investment_income |-> net_investment_income,
            niit |-> Quantize(taxable_base, 38, 1000)]

calculate_niit(magi, net_investment_income, filing_status) ==
  IF magi < 0 THEN ValueError
  ELSE IF net_investment_income < 0 THEN ValueError
  ELSE LET threshold == NIIT_THRESHOLDS[filing_status]
           excess_magi == Max(magi - threshold, 0)
           taxable_base == Min(net_investment_income, excess_magi)
       IN  [magi |-> magi, threshold |-> threshold, excess_magi |-> excess_magi,
            net_investment_income |-> net_investment_income,
            niit |-> Quantize(taxable_base, 38, 1000)]

(***************************************************************************)
(* tools/calculate_fica.py                                                 *)
(***************************************************************************)
SOCIAL_SECURITY_WAGE_BASE == 16860000

ADDITIONAL_MEDICARE_THRESHOLDS ==
  [fs \in FilingStatus |->
     CASE fs = SINGLE -> 20000000
       [] fs = MFJ -> 25000000
       [] fs = MFS -> 12500000
       [] fs = HOH -> 20000000
       [] fs = QSS -> 25000000]

\* (self_employment_income * SE_TAXABLE_FRACTION).quantize(...)
SeBase(self_employment_income) == Quantize(self_employment_income, 9235, 10000)

\* SS portion of SE income: what is left of the wage base after the W-2 wages
RemainingSsBaseMutant(w2_wages) == SOCIAL_SECURITY_WAGE_BASE

RemainingSsBase(w2_wages) == Max(SOCIAL_SECURITY_WAGE_BASE - w2_wages, 0)

\* the amount the additional Medicare threshold is applied to
CombinedForMedicareMutant(w2_wages, se_base_for_amt) == Max(w2_wages, se_base_for_amt)

CombinedForMedicare(w2_wages, se_base_for_amt) == w2_wages + se_base_for_amt

TotalFicaMutant(w2_ss_tax, w2_medicare_tax, se_tax, additional_medicare) ==
  w2_ss_tax + w2_medicare_tax + additional_medicare

\* total_fica = w2_ss_tax + w2_medicare_tax + se_tax + additional_medicare
TotalFica(w2_ss_tax, w2_medicare_tax, se_tax, additional_medicare) ==
  w2_ss_tax + w2_medicare_tax + se_tax + additional_medicare

\* the local variables of calculate_fica once both arguments passed the checks;
\* se_base and se_ss_wages are only assigned when self_employment_income > 0
\* and are 0 here otherwise
FicaLocals(w2_wages, self_employment_income, filing_status) ==
  LET ss_wages == Min(w2_wages, SOCIAL_SECURITY_WAGE_BASE)
      w2_ss_tax == Quantize(ss_wages, 62, 1000)
      w2_medicare_tax == Quantize(w2_wages, 145, 10000)
      se_base == IF self_employment_income > 0
                 THEN SeBase(self_employment_income) ELSE 0
      remaining_ss_base == RemainingSsBase(w2_wages)
      se_ss_wages == IF self_employment_income > 0
                     THEN Min(se_base, remaining_ss_base) ELSE 0
      se_ss_tax == IF self_employment_income > 0
                   THEN Quantize(se_ss_wages, 124, 1000) ELSE 0
      se_medicare_tax == IF self_employment_income > 0
                         THEN Quantize(se_base, 29, 1000) ELSE 0
      se_tax == IF self_employment_income > 0
                THEN se_ss_tax + se_medicare_tax ELSE 0
      additional_medicare_threshold == ADDITIONAL_MEDICARE_THRESHOLDS[filing_status]
      se_base_for_amt == IF self_employment_income > 0
                         THEN SeBase(self_employment_income) ELSE 0
      combined_for_medicare == CombinedForMedicare(w2_wages, se_base_for_amt)
      excess_medicare == Max(combined_for_medicare - additional_medicare_threshold, 0)
      additional_medicare == Quantize(excess_medicare, 9, 1000)
      se_tax_deduction == Quantize(se_tax, 5, 10)
      total_fica == TotalFica(w2_ss_tax, w2_medicare_tax, se_tax, additional_medicare)
  IN  [ss_wages |-> ss_wages, w2_ss_tax |-> w2_ss_tax,
       w2_medicare_tax |-> w2_medicare_tax, se_base |-> se_base,
       se_ss_wages |-> se_ss_wages, se_ss_tax |-> se_ss_tax,
       se_medicare_tax |-> se_medicare_tax, se_tax |-> se_tax,
       combined_for_medicare |-> combined_for_medicare,
       excess_medicare |-> excess_medicare,
       additional_medicare |-> additional_medicare,
       se_tax_deduction |-> se_tax_deduction, total_fica |-> total_fica]

SsTaxReportedMutant(w2_ss_tax, se_ss_tax) == Quantize(w2_ss_tax, 1, 1)

\* ss_tax of the FicaResult: (w2_ss_tax + se_ss_tax).quantize(...)
SsTaxReported(w2_ss_tax, se_ss_tax) == Quantize(w2_ss_tax + se_ss_tax, 1, 1)

calculate_fica(w2_wages, self_employment_income, filing_status) ==
  IF w2_wages < 0 THEN ValueError
  ELSE IF self_employment_income < 0 THEN ValueError
  ELSE LET l == FicaLocals(w2_wages, self_employment_income, filing_status)
       IN  [ss_tax |-> SsTaxReported(l.w2_ss_tax, l.se_ss_tax),
            medicare_tax |-> Quantize(l.w2_medicare_tax + l.se_medicare_tax, 1, 1),
            additional_medicare_tax |-> l.additional_medicare,
            se_tax |-> l.se_tax,
            se_tax_deduction |-> l.se_tax_deduction,
            total_fica |-> Quantize(l.total_fica, 1, 1)]

(***************************************************************************)
(* tools/calculate_agi.py, models/tax_input.py                             *)
(***************************************************************************)
\* GrossIncome(...): the record, or ValidationError when a field constraint
\* (ge=0) or the validator qualified_le_ordinary fails
GrossIncome(w2_wages, nec_1099, interest_income, ordinary_dividends, qualified_dividends, short_term_gains, long_term_gains) ==
  IF \/ w2_wages < 0 \/ nec_1099 < 0 \/ interest_income < 0
     \/ ordinary_dividends < 0 \/ qualified_dividends < 0
     \/ qualified_dividends > ordinary_dividends
  THEN ValidationError
  ELSE [w2_wages |-> w2_wages, nec_1099 |-> nec_1099,
        interest_income |-> interest_income,
        ordinary_dividends |-> ordinary_dividends,
        qualified_dividends |-> qualified_dividends,
        short_term_gains |-> short_term_gains,
        long_term_gains |-> long_term_gains]

\* AboveLineDeductions(...): penalty_early_withdrawal and alimony_paid keep
\* their default 0
AboveLineDeductions(se_tax_deduction, hsa_deduction, student_loan_interest, educator_expenses, ira_deduction, self_employed_health_insurance) ==
  IF \/ se_tax_deduction < 0 \/ hsa_deduction < 0 \/ student_loan_interest < 0
     \/ educator_expenses < 0 \/ ira_deduction < 0
     \/ self_employed_health_insurance < 0
  THEN ValidationError
  ELSE [educator_expenses |-> educator_expenses,
        student_loan_interest |-> student_loan_interest,
        hsa_deduction |-> hsa_deduction,
        ira_deduction |-> ira_deduction,
        se_tax_deduction |-> se_tax_deduction,
        self_employed_health_insurance |-> self_employed_health_insurance,
        penalty_early_withdrawal |-> 0,
        alimony_paid |-> 0]

FlooredAgiMutant(total_income, total_deductions) == total_income - total_deductions

\* max(total_income - total_deductions, Decimal("0"))
FlooredAgi(total_income, total_deductions) == Max(total_income - total_deductions, 0)

calculate_agi(gross_income, above_line_deductions) ==
  LET total_income == gross_income.w2_wages + gross_income.nec_1099
                        + gross_income.interest_income + gross_income.ordinary_dividends
                        + gross_income.short_term_gains + gross_income.long_term_gains
      total_deductions ==
        above_line_deductions.educator_expenses
          + above_line_deductions.student_loan_interest
          + above_line_deductions.hsa_deduction
          + above_line_deductions.ira_deduction
          + above_line_deductions.se_tax_deduction
          + above_line_deductions.self_employed_health_insurance
          + above_line_deductions.penalty_early_withdrawal
          + above_line_deductions.alimony_paid
      agi == FlooredAgi(total_income, total_deductions)
  IN  [total_gross_income |-> RoundHalfUp(total_income, 1),
       total_above_line_deductions |-> RoundHalfUp(total_deductions, 1),
       agi |-> RoundHalfUp(agi, 1)]

(***************************************************************************)
(* workflows/income_workflow.py, fica_workflow.py, agi_workflow.py         *)
(***************************************************************************)
RECURSIVE SumField(_, _)
\* sum((form.field for form in forms), Decimal("0"))
SumField(forms, field) ==
  IF forms = << >> THEN 0 ELSE Head(forms)[field] + SumField(Tail(forms), field)

NetGainsMutant(st_gains, lt_gains) == st_gains + lt_gains

\* net capital gains for NII: losses are capped at 0
NetGains(st_gains, lt_gains) == Max(st_gains + lt_gains, 0)

run_income_workflow(tax_return) ==
  LET wages == SumField(tax_return.w2s, "wages")
      se_income == SumField(tax_return.income_1099_nec, "compensation")
      interest == SumField(tax_return.income_1099_int, "interest")
      ordinary_divs == SumField(tax_return.income_1099_div, "ordinary_dividends")
      qualified_divs == SumField(tax_return.income_1099_div, "qualified_dividends")
      st_gains == SumField(tax_return.income_1099_b, "short_term_gains")
      lt_gains == SumField(tax_return.income_1099_b, "long_term_gains")
      total_gross == wages + se_income + interest + ordinary_divs + st_gains + lt_gains
      net_gains == NetGains(st_gains, lt_gains)
      nii == interest + ordinary_divs + net_gains
  IN  [wages |-> RoundHalfUp(wages, 1),
       self_employment_income |-> RoundHalfUp(se_income, 1),
       interest_income |-> RoundHalfUp(interest, 1),
       ordinary_dividends |-> RoundHalfUp(ordinary_divs, 1),
       qualified_dividends |-> RoundHalfUp(qualified_divs, 1),
       short_term_gains |-> RoundHalfUp(st_gains, 1),
       long_term_gains |-> RoundHalfUp(lt_gains, 1),
       total_gross_income |-> RoundHalfUp(total_gross, 1),
       net_investment_income |-> RoundHalfUp(nii, 1)]

run_fica_workflow(income, filing_status) ==
  calculate_fica(income.wages, income.self_employment_income, filing_status)

run_agi_workflowMutant(tax_return, income, fica) ==
  LET gross_income == GrossIncome(income.wages, income.self_employment_income,
                        income.interest_income, income.ordinary_dividends,
                        income.qualified_dividends, income.short_term_gains,
                        income.long_term_gains)
      above_line == AboveLineDeductions(0, tax_return.hsa_deduction,
                      tax_return.student_loan_interest, tax_return.educator_expenses,
                      tax_return.ira_deduction, tax_return.self_employed_health_insurance)
  IN  IF IsError(gross_income) THEN gross_income
      ELSE IF IsError(above_line) THEN above_line
      ELSE calculate_agi(gross_income, above_line)

run_agi_workflow(tax_return, income, fica) ==
  LET gross_income == GrossIncome(income.wages, income.self_employment_income,
                        income.interest_income, income.ordinary_dividends,
                        income.qualified_dividends, income.short_term_gains,
                        income.long_term_gains)
      above_line == AboveLineDeductions(fica.se_tax_deduction, tax_return.hsa_deduction,
                      tax_return.student_loan_interest, tax_return.educator_expenses,
                      tax_return.ira_deduction, tax_return.self_employed_health_insurance)
  IN  IF IsError(gross_income) THEN gross_income
      ELSE IF IsError(above_line) THEN above_line
      ELSE calculate_agi(gross_income, above_line)

(***************************************************************************)
(* workflows/tax_computation_workflow.py                                   *)
(***************************************************************************)
TotalIncomeTaxMutant(ordinary_tax, qualified_div_tax, capital_gains_tax, niit) ==
  Quantize(ordinary_tax + qualified_div_tax + capital_gains_tax, 1, 1)

\* (ordinary_tax + qualified_div_tax + capital_gains_tax + niit).quantize(...)
TotalIncomeTax(ordinary_tax, qualified_div_tax, capital_gains_tax, niit) ==
  Quantize(ordinary_tax + qualified_div_tax + capital_gains_tax + niit, 1, 1)

StackingBaseMutant(ordinary_taxable_income, preferential_qualified_dividends) == ordinary_taxable_income

\* long-term gains stack above the ordinary income and the qualified dividends
StackingBase(ordinary_taxable_income, preferential_qualified_dividends) == ordinary_taxable_income + preferential_qualified_dividends

run_tax_computation_workflow(income, agi_result, deductions, filing_status) ==
  LET bracket_result == calculate_bracket_tax(deductions.ordinary_taxable_income,
                                              filing_status)
      div_result == calculate_qualified_dividend_tax(
                      deductions.preferential_qualified_dividends,
                      deductions.ordinary_taxable_income, filing_status)
      stacking_base == StackingBase(deductions.ordinary_taxable_income,
                                    deductions.preferential_qualified_dividends)
      cg_result == calculate_capital_gains_tax(0, deductions.preferential_long_term_gains,
                                               stacking_base, filing_status)
      niit_result == calculate_niit(agi_result.agi, income.net_investment_income,
                                    filing_status)
  IN  IF IsError(bracket_result) THEN bracket_result
      ELSE IF IsError(div_result) THEN div_result
      ELSE IF IsError(cg_result) THEN cg_result
      ELSE IF IsError(niit_result) THEN niit_result
      ELSE [ordinary_tax |-> bracket_result.total_tax,
            qualified_dividend_tax |-> div_result.tax,
            capital_gains_tax |-> cg_result.long_term_tax,
            niit |-> niit_result.niit,
            total_income_tax |->
              TotalIncomeTax(bracket_result.total_tax, div_result.tax,
                             cg_result.long_term_tax, niit_result.niit)]

(***************************************************************************)
(* workflows/summary_workflow.py                                           *)
(***************************************************************************)
\* (total_tax / total_gross_income).quantize(Decimal("0.000001"), ROUND_HALF_UP);
\* total_tax is negative when credits were refunded
SummaryEffectiveRate(total_tax, total_gross_income) ==
  IF total_gross_income > 0
  THEN IF total_tax >= 0 THEN QuantizeRate(total_tax, total_gross_income)
       ELSE 0 - QuantizeRate(0 - total_tax, total_gross_income)
  ELSE 0

SummaryTotalsMutant(income_tax_after_credits, total_fica, total_payments) ==
  [total_tax |-> income_tax_after_credits + total_fica,
   refund_or_owed |-> income_tax_after_credits + total_fica - total_payments]

\* total_tax and refund_or_owed: only the income tax is offset by the payments
SummaryTotals(income_tax_after_credits, total_fica, total_payments) ==
  [total_tax |-> income_tax_after_credits + total_fica,
   refund_or_owed |-> income_tax_after_credits - total_payments]

run_summary_workflow(tax_return, income, agi_result, deductions, tax_computation, credits, fica) ==
  LET total_withholding == SumField(tax_return.w2s, "federal_withholding")
      total_payments == total_withholding + tax_return.estimated_payments
      income_tax_after_credits == credits.tax_after_credits
      totals == SummaryTotals(income_tax_after_credits, fica.total_fica, total_payments)
      total_tax == totals.total_tax
      refund_or_owed == totals.refund_or_owed
      effective_rate == SummaryEffectiveRate(total_tax, income.total_gross_income)
      bracket_result == calculate_bracket_tax(deductions.taxable_income,
                                              tax_return.filing_status)
  IN  IF IsError(bracket_result) THEN bracket_result
      ELSE [filing_status |-> tax_return.filing_status,
            total_income |-> RoundHalfUp(income.total_gross_income, 1),
            agi |-> RoundHalfUp(agi_result.agi, 1),
            deduction_amount |-> RoundHalfUp(deductions.deduction_amount, 1),
            taxable_income |-> RoundHalfUp(deductions.taxable_income, 1),
            ordinary_tax |-> RoundHalfUp(tax_computation.ordinary_tax, 1),
            qualified_dividend_tax |-> RoundHalfUp(tax_computation.qualified_dividend_tax, 1),
            capital_gains_tax |-> RoundHalfUp(tax_computation.capital_gains_tax, 1),
            niit |-> RoundHalfUp(tax_computation.niit, 1),
            total_income_tax_before_credits |->
              RoundHalfUp(tax_computation.total_income_tax, 1),
            total_credits |-> RoundHalfUp(credits.total_credits_applied, 1),
            income_tax_after_credits |-> RoundHalfUp(income_tax_after_credits, 1),
            total_fica |-> RoundHalfUp(fica.total_fica, 1),
            total_tax |-> RoundHalfUp(total_tax, 1),
            effective_rate |-> effective_rate,
            marginal_rate |-> bracket_result.marginal_rate,
            total_withholding |-> RoundHalfUp(total_withholding, 1),
            estimated_payments |-> RoundHalfUp(tax_return.estimated_payments, 1),
            total_payments |-> RoundHalfUp(total_payments, 1),
            refund_or_owed |-> RoundHalfUp(refund_or_owed, 1)]

(***************************************************************************)
(* State.                                                                  *)
(***************************************************************************)
VARIABLES
  bracketArgs,     \* the inputs of the calculate_bracket_tax calls
  bracketResult,   \* BracketTaxResult of the latest calculate_bracket_tax call
  bracketPrev,     \* BracketTaxResult of the call before it
  prefArgs,        \* the inputs of the calculate_preferential_rate_tax calls
  prefCall,        \* arguments and result of the latest call
  prefPrev,        \* arguments and result of the call before it
  creditsArgs,     \* the inputs of the run_credits_workflow call
  creditsResult,   \* CreditsResult of the run_credits_workflow call
  creditsLocals,   \* the local variables of that call
  deductionArgs,   \* the inputs of the run_deduction_workflow call
  deductionResult, \* DeductionResult of the run_deduction_workflow call
  deductionLocals, \* the local variables of that call
  ficaArgs,        \* the inputs of the calculate_fica call
  ficaResult,      \* FicaResult of the calculate_fica call
  ficaLocals,      \* the local variables of that call
  summaryArgs,     \* the inputs of the run_summary_workflow calls
  summaryResult,   \* TaxSummary of the latest run_summary_workflow call
  summaryPrev,     \* TaxSummary of the call before it
  taxReturn,       \* the TaxReturnInput calculate_full_tax is called with
  pc,              \* the position of calculate_full_tax
  stages,          \* the results of the stages that have run, by local variable
  returned,        \* the FullTaxCalculationResult returned to the caller
  warnings,        \* the number of warnings logged by calculate_full_tax
  save_calls,      \* the arguments of the save_calculation calls made so far
  connection,      \* db._connection: None or the connection it names
  connections_opened, \* the number of connections sqlite3.connect has returned
  tax_calculations, \* the rows of the table tax_calculations, in insertion order
  sqlite_sequence, \* the largest id the table has ever held (AUTOINCREMENT)
  repoCall,        \* the latest call of a repository function and its result
  repoLog,         \* the ids save_calculation returned and the ids deleted
  calls,           \* the concurrent calculate_full_tax calls, by call
  toolArgs,        \* the tool called on its own and its arguments
  toolResult,      \* what that call returned or raised
  taxCompArgs,     \* the inputs of the run_tax_computation_workflow call
  taxCompResult    \* TaxComputationResult of that call

vars == << bracketArgs, bracketResult, bracketPrev, prefArgs, prefCall, prefPrev,
           creditsArgs, creditsResult, creditsLocals, deductionArgs, deductionResult,
           deductionLocals, ficaArgs, ficaResult, ficaLocals,
           summaryArgs, summaryResult, summaryPrev,
           taxReturn, pc, stages, returned, warnings, save_calls,
           connection, connections_opened, tax_calculations, sqlite_sequence,
           repoCall, repoLog, calls, toolArgs, toolResult, taxCompArgs, taxCompResult >>

\* value of a variable that holds no input or result (yet)
Idle == [idle |-> TRUE]

IsIdle(v) == DOMAIN v = {"idle"}

bracketVars == << bracketArgs, bracketResult, bracketPrev >>

prefVars == << prefArgs, prefCall, prefPrev >>

creditsVars == << creditsArgs, creditsResult, creditsLocals >>

deductionVars == << deductionArgs, deductionResult, deductionLocals >>

ficaVars == << ficaArgs, ficaResult, ficaLocals >>

summaryVars == << summaryArgs, summaryResult, summaryPrev >>

pipelineVars == << taxReturn, pc, stages, returned, warnings, save_calls >>

databaseVars == << connection, connections_opened, tax_calculations, sqlite_sequence >>

repositoryVars == << repoCall, repoLog >>

concurrentVars == << calls >>

toolVars == << toolArgs, toolResult >>

taxComputationVars == << taxCompArgs, taxCompResult >>

BracketIdle == bracketArgs = Idle /\ bracketResult = Idle /\ bracketPrev = Idle

PrefIdle == prefArgs = Idle /\ prefCall = Idle /\ prefPrev = Idle

CreditsIdle == creditsArgs = Idle /\ creditsResult = Idle /\ creditsLocals = Idle

DeductionIdle == deductionArgs = Idle /\ deductionResult = Idle /\ deductionLocals = Idle

FicaIdle == ficaArgs = Idle /\ ficaResult = Idle /\ ficaLocals = Idle

SummaryIdle == summaryArgs = Idle /\ summaryResult = Idle /\ summaryPrev = Idle

PipelineIdle ==
  /\ taxReturn = Idle
  /\ pc = "idle"
  /\ stages = Idle
  /\ returned = Idle
  /\ warnings = 0
  /\ save_calls = << >>

DatabaseIdle ==
  /\ connection = None
  /\ connections_opened = 0
  /\ tax_calculations = << >>
  /\ sqlite_sequence = 0

RepositoryIdle == repoCall = Idle /\ repoLog = Idle

ConcurrentIdle == calls = Idle

ToolsIdle == toolArgs = Idle /\ toolResult = Idle

TaxComputationIdle == taxCompArgs = Idle /\ taxCompResult = Idle

(***************************************************************************)
(* Inputs.                                                                 *)
(***************************************************************************)
UpperBounds(table) == { table[i].upper_bound : i \in 1..(Len(table) - 1) }

\* amounts within MaxDelta cents of a bound, on both sides
Around(bounds) == { b + d : b \in bounds, d \in (0 - MaxDelta)..MaxDelta }

BracketIncomes(fs) ==
  (0..(MaxDelta + 2)) \cup Around(UpperBounds(FEDERAL_BRACKETS[fs])) \cup {100000000}

PrefOrdinaryIncomes(fs) ==
  {0, 4000000} \cup Around(UpperBounds(CAPITAL_GAINS_THRESHOLDS[fs]))

PrefAmounts == (1..MaxAmountCents) \cup {100, 3000000, 60000000}

(***************************************************************************)
(* The bracket tax engine called on its own: a first call, then a second   *)
(* call with the same filing status and an income at least as high.        *)
(***************************************************************************)
BracketCall ==
  /\ IsIdle(bracketResult)
  /\ bracketResult' =
       calculate_bracket_tax(bracketArgs.taxable_income, bracketArgs.filing_status)
  /\ UNCHANGED << bracketArgs, bracketPrev, prefVars, taxComputationVars, creditsVars, deductionVars, pipelineVars, databaseVars, repositoryVars, concurrentVars, toolVars, ficaVars, summaryVars >>

BracketCallHigher ==
  /\ ~IsIdle(bracketResult)
  /\ IsIdle(bracketPrev)
  /\ bracketPrev' = bracketResult
  /\ bracketResult' =
       calculate_bracket_tax(bracketArgs.higher_income, bracketArgs.filing_status)
  /\ UNCHANGED << bracketArgs, prefVars, taxComputationVars, creditsVars, deductionVars, pipelineVars, databaseVars, repositoryVars, concurrentVars, toolVars, ficaVars, summaryVars >>

InitBracket ==
  /\ \E fs \in FilingStatus : \E income, higher \in BracketIncomes(fs) :
       /\ income <= higher
       /\ bracketArgs = [filing_status |-> fs, taxable_income |-> income,
                         higher_income |-> higher]
  /\ bracketResult = Idle
  /\ bracketPrev = Idle
  /\ PrefIdle
  /\ CreditsIdle
  /\ DeductionIdle
  /\ PipelineIdle
  /\ DatabaseIdle
  /\ RepositoryIdle
  /\ ConcurrentIdle
  /\ ToolsIdle
  /\ FicaIdle
  /\ SummaryIdle
  /\ TaxComputationIdle

NextBracket == BracketCall \/ BracketCallHigher

SpecBracket == InitBracket /\ [][NextBracket]_vars

(***************************************************************************)
(* The preferential rate engine called on its own: a first call, then a    *)
(* second call with the same amount and filing status, stacked on an       *)
(* ordinary income at least as high.                                       *)
(***************************************************************************)
PrefCallRecord(amount, ordinary_income, filing_status) ==
  LET r == calculate_preferential_rate_tax(amount, ordinary_income, filing_status)
  IN  [amount |-> amount, ordinary_income |-> ordinary_income,
       filing_status |-> filing_status, tax |-> r.tax, breakdown |-> r.breakdown]

PrefCall ==
  /\ IsIdle(prefCall)
  /\ prefCall' = PrefCallRecord(prefArgs.amount, prefArgs.ordinary_income,
                                prefArgs.filing_status)
  /\ UNCHANGED << prefArgs, prefPrev, bracketVars, taxComputationVars, creditsVars, deductionVars, pipelineVars, databaseVars, repositoryVars, concurrentVars, toolVars, ficaVars, summaryVars >>

PrefCallHigher ==
  /\ ~IsIdle(prefCall)
  /\ IsIdle(prefPrev)
  /\ prefPrev' = prefCall
  /\ prefCall' = PrefCallRecord(prefArgs.amount, prefArgs.higher_ordinary,
                                prefArgs.filing_status)
  /\ UNCHANGED << prefArgs, bracketVars, taxComputationVars, creditsVars, deductionVars, pipelineVars, databaseVars, repositoryVars, concurrentVars, toolVars, ficaVars, summaryVars >>

InitPref ==
  /\ \E fs \in FilingStatus : \E amount \in PrefAmounts :
       \E ordinary, higher \in PrefOrdinaryIncomes(fs) :
         /\ ordinary <= higher
         /\ prefArgs = [filing_status |-> fs, amount |-> amount,
                        ordinary_income |-> ordinary, higher_ordinary |-> higher]
  /\ prefCall = Idle
  /\ prefPrev = Idle
  /\ BracketIdle
  /\ CreditsIdle
  /\ DeductionIdle
  /\ PipelineIdle
  /\ DatabaseIdle
  /\ RepositoryIdle
  /\ ConcurrentIdle
  /\ ToolsIdle
  /\ FicaIdle
  /\ SummaryIdle
  /\ TaxComputationIdle

NextPref == PrefCall \/ PrefCallHigher

SpecPref == InitPref /\ [][NextPref]_vars

(***************************************************************************)
(* The credits workflow called on its own.                                 *)
(***************************************************************************)
\* AGI at, just above and well above the phaseout threshold, in cents
CreditsAgis(fs) ==
  {3000000, 7500000} \cup
  { CHILD_TAX_CREDIT_PHASEOUT[fs] + e :
      e \in {0, 1, 100, 40000, 49999, 50000, 100000, 100001, 150000,
             1000000, 4000000, 8000000} }

CreditsTaxes == {0, 1, 100000, 199999, 200000, 834100, 4000000}

CreditsCall ==
  /\ IsIdle(creditsResult)
  /\ creditsResult' =
       run_credits_workflow(creditsArgs.num_qualifying_children, creditsArgs.agi,
                            creditsArgs.filing_status, creditsArgs.total_income_tax)
  /\ creditsLocals' =
       CreditsWorkflowLocals(creditsArgs.num_qualifying_children, creditsArgs.agi,
                             creditsArgs.filing_status, creditsArgs.total_income_tax)
  /\ UNCHANGED << creditsArgs, bracketVars, taxComputationVars, prefVars, deductionVars, pipelineVars, databaseVars, repositoryVars, concurrentVars, toolVars, ficaVars, summaryVars >>

InitCredits ==
  /\ \E fs \in FilingStatus : \E n \in 0..MaxChildren :
       \E agi \in CreditsAgis(fs) : \E tax \in CreditsTaxes :
         creditsArgs = [filing_status |-> fs, num_qualifying_children |-> n,
                        agi |-> agi, total_income_tax |-> tax]
  /\ creditsResult = Idle
  /\ creditsLocals = Idle
  /\ BracketIdle
  /\ PrefIdle
  /\ DeductionIdle
  /\ PipelineIdle
  /\ DatabaseIdle
  /\ RepositoryIdle
  /\ ConcurrentIdle
  /\ ToolsIdle
  /\ FicaIdle
  /\ SummaryIdle
  /\ TaxComputationIdle

NextCredits == CreditsCall

SpecCredits == InitCredits /\ [][NextCredits]_vars

(***************************************************************************)
(* The deduction workflow called on its own.                               *)
(***************************************************************************)
ItemizedDeductions(medical, salt, mortgage, charitable, casualty, other) ==
  [medical |-> medical, state_and_local_taxes |-> salt, mortgage_interest |-> mortgage,
   charitable |-> charitable, casualty |-> casualty, other |-> other]

\* no record, a record below every standard amount, medical expenses of
\* 1,000.00, a record equal to the standard amount of SINGLE and MFS, a
\* record above every standard amount
ItemizedChoices ==
  { << >>,
    << ItemizedDeductions(0, 300000, 200000, 0, 0, 0) >>,
    << ItemizedDeductions(100000, 700000, 0, 0, 0, 0) >>,
    << ItemizedDeductions(0, 0, 1460000, 0, 0, 0) >>,
    << ItemizedDeductions(1000000, 1500000, 1800000, 500000, 0, 10000) >> }

\* AGI at the standard amount, a few cents above it, and well above it; 7.5%
\* of the AGI 20 cents above it ends in half a cent
DeductionAgis(fs) ==
  {0} \cup { STANDARD_DEDUCTION[fs] + e : e \in {0, 1, 3, 17, 20, 10000, 3000000} }

DeductionDividends == {0, 13, 14, 5000, 2000000}

DeductionLongTermGains == {0 - 500000, 0, 13, 14, 3000000}

DeductionCall(quotient_rounded_down) ==
  /\ IsIdle(deductionResult)
  /\ deductionResult' =
       run_deduction_workflow(deductionArgs.tax_return, deductionArgs.income,
                              deductionArgs.agi_result, quotient_rounded_down)
  /\ deductionLocals' =
       DeductionWorkflowLocals(deductionArgs.tax_return, deductionArgs.agi_result)
  /\ UNCHANGED << deductionArgs, bracketVars, taxComputationVars, prefVars, creditsVars, pipelineVars, databaseVars, repositoryVars, concurrentVars, toolVars, ficaVars, summaryVars >>

InitDeduction ==
  /\ \E fs \in FilingStatus : \E item \in ItemizedChoices : \E force \in BOOLEAN :
       \E agi \in DeductionAgis(fs) : \E qd \in DeductionDividends :
         \E lt \in DeductionLongTermGains : \E is_blind, is_over_65 \in BOOLEAN :
           deductionArgs =
             [tax_return |-> [filing_status |-> fs, is_blind |-> is_blind,
                              is_over_65 |-> is_over_65, itemized_deductions |-> item,
                              force_standard_deduction |-> force],
              income |-> [qualified_dividends |-> qd, long_term_gains |-> lt],
              agi_result |-> [agi |-> agi]]
  /\ deductionResult = Idle
  /\ deductionLocals = Idle
  /\ BracketIdle
  /\ PrefIdle
  /\ CreditsIdle
  /\ PipelineIdle
  /\ DatabaseIdle
  /\ RepositoryIdle
  /\ ConcurrentIdle
  /\ ToolsIdle
  /\ FicaIdle
  /\ SummaryIdle
  /\ TaxComputationIdle

NextDeduction == \E quotient_rounded_down \in BOOLEAN : DeductionCall(quotient_rounded_down)

SpecDeduction == InitDeduction /\ [][NextDeduction]_vars

(***************************************************************************)
(* database/db.py: connections are numbered in the order they are opened.  *)
(***************************************************************************)
\* init_db(): open a connection, apply the schema, make _connection name it
init_db(opened) == [connection |-> opened + 1, connections_opened |-> opened + 1]

\* get_db(): the module-level connection, created if there is none
get_db(conn, opened) ==
  IF conn = None THEN init_db(opened)
  ELSE [connection |-> conn, connections_opened |-> opened]

(***************************************************************************)
(* database/repository.py                                                  *)
(***************************************************************************)
RowIds(rows) == { rows[i].id : i \in 1..Len(rows) }

\* the largest id in the table, 0 when it is empty
MaxRowId(rows) ==
  IF rows = << >> THEN 0
  ELSE CHOOSE m \in RowIds(rows) : \A n \in RowIds(rows) : n <= m

\* the id of the row an INSERT adds (id INTEGER PRIMARY KEY AUTOINCREMENT):
\* one above the largest id the table has ever held
NextRowId(rows, seq) == 1 + Max(seq, MaxRowId(rows))

\* the row save_calculation inserts
CalculationRow(id, tax_input, result) ==
  [id |-> id,
   filing_status |-> tax_input.filing_status,
   input_data |-> tax_input,
   total_income |-> result.summary.total_income,
   agi |-> result.summary.agi,
   taxable_income |-> result.summary.taxable_income,
   federal_tax |-> result.summary.total_income_tax_before_credits,
   total_credits |-> result.summary.total_credits,
   total_tax |-> result.summary.total_tax,
   effective_rate |-> result.summary.effective_rate,
   marginal_rate |-> result.summary.marginal_rate,
   refund_or_owed |-> result.summary.refund_or_owed,
   result_data |-> result]

\* save_calculation: INSERT, commit, return cursor.lastrowid
save_calculation(rows, seq, tax_input, result) ==
  LET lastrowid == NextRowId(rows, seq)
  IN  [tax_calculations |-> Append(rows, CalculationRow(lastrowid, tax_input, result)),
       sqlite_sequence |-> lastrowid,
       result |-> lastrowid]

\* the columns list_calculations selects: every column but the JSON blobs
SummaryColumns(row) ==
  [id |-> row.id, filing_status |-> row.filing_status,
   total_income |-> row.total_income, agi |-> row.agi,
   taxable_income |-> row.taxable_income, federal_tax |-> row.federal_tax,
   total_credits |-> row.total_credits, total_tax |-> row.total_tax,
   effective_rate |-> row.effective_rate, marginal_rate |-> row.marginal_rate,
   refund_or_owed |-> row.refund_or_owed]

RowWithId(rows, id) == rows[CHOOSE i \in 1..Len(rows) : rows[i].id = id]

RowsWithoutId(rows, id) == SelectSeq(rows, LAMBDA row : row.id # id)

\* ORDER BY id DESC
RECURSIVE OrderByIdDesc(_)
OrderByIdDesc(rows) ==
  IF rows = << >> THEN << >>
  ELSE LET m == MaxRowId(rows)
       IN  << RowWithId(rows, m) >> \o OrderByIdDesc(RowsWithoutId(rows, m))

list_calculations(rows) ==
  LET ordered == OrderByIdDesc(rows)
  IN  [i \in 1..Len(ordered) |-> SummaryColumns(ordered[i])]

\* the row with that id, or None: a sequence of one row, or of none
get_calculation(rows, calc_id) ==
  IF calc_id \in RowIds(rows) THEN << RowWithId(rows, calc_id) >> ELSE << >>

RowsDeletedMutant(rowcount) == rowcount >= 0

\* cursor.rowcount > 0
RowsDeleted(rowcount) == rowcount > 0

\* delete_calculation: DELETE, commit, report whether a row was deleted
delete_calculation(rows, calc_id) ==
  LET kept == RowsWithoutId(rows, calc_id)
  IN  [tax_calculations |-> kept, result |-> RowsDeleted(Len(rows) - Len(kept))]

(***************************************************************************)
(* models/workflow_models.py: the validation of a request body.            *)
(***************************************************************************)
\* every value of a field declared with ge=0
NonNegativeFields(request) ==
  { request.w2s[i].wages : i \in DOMAIN request.w2s }
    \cup { request.w2s[i].federal_withholding : i \in DOMAIN request.w2s }
    \cup { request.w2s[i].social_security_wages : i \in DOMAIN request.w2s }
    \cup { request.w2s[i].medicare_wages : i \in DOMAIN request.w2s }
    \cup { request.income_1099_nec[i].compensation : i \in DOMAIN request.income_1099_nec }
    \cup { request.income_1099_int[i].interest : i \in DOMAIN request.income_1099_int }
    \cup { request.income_1099_div[i].ordinary_dividends : i \in DOMAIN request.income_1099_div }
    \cup { request.income_1099_div[i].qualified_dividends : i \in DOMAIN request.income_1099_div }
    \cup UNION { { request.itemized_deductions[i].medical,
                   request.itemized_deductions[i].state_and_local_taxes,
                   request.itemized_deductions[i].mortgage_interest,
                   request.itemized_deductions[i].charitable,
                   request.itemized_deductions[i].casualty,
                   request.itemized_deductions[i].other } :
                 i \in DOMAIN request.itemized_deductions }
    \cup { request.hsa_deduction, request.student_loan_interest, request.educator_expenses,
           request.ira_deduction, request.self_employed_health_insurance,
           request.credits.num_qualifying_children, request.estimated_payments }

QualifiedLeOrdinaryMutant(request) ==
  SumField(request.income_1099_div, "qualified_dividends")
    <= SumField(request.income_1099_div, "ordinary_dividends")

\* Income1099DIV.qualified_le_ordinary, on every record
QualifiedLeOrdinary(request) ==
  \A i \in DOMAIN request.income_1099_div :
     request.income_1099_div[i].qualified_dividends
       <= request.income_1099_div[i].ordinary_dividends

\* TaxReturnInput built from a request body: the value, or ValidationError
ValidateTaxReturnInput(request) ==
  IF request.filing_status \notin FilingStatus THEN ValidationError
  ELSE IF \E v \in NonNegativeFields(request) : v < 0 THEN ValidationError
  ELSE IF ~QualifiedLeOrdinary(request) THEN ValidationError
  ELSE request

(***************************************************************************)
(* api/routes.py: full_calculation, and workflows/orchestrator.py:         *)
(* calculate_full_tax, one action per stage.  A request body that fails    *)
(* validation is rejected (pc = "rejected"); a stage that raises ends the  *)
(* call without a result (pc = "raised").                                  *)
(***************************************************************************)
NoStages ==
  [income |-> Idle, fica |-> Idle, agi |-> Idle, deductions |-> Idle,
   tax_computation |-> Idle, credits |-> Idle, summary |-> Idle, result |-> Idle]

\* stage `name` has produced value r: go on to `next` unless r is an exception
StageDone(name, r, next) ==
  /\ stages' = [stages EXCEPT ![name] = r]
  /\ pc' = IF IsError(r) THEN "raised" ELSE next
  /\ UNCHANGED << taxReturn, returned, warnings, save_calls >>
  /\ UNCHANGED << databaseVars, repositoryVars, concurrentVars, toolVars >>
  /\ UNCHANGED << bracketVars, taxComputationVars, prefVars, creditsVars, deductionVars, ficaVars, summaryVars >>

\* the request body is validated before calculate_full_tax is called
Validate ==
  /\ pc = "validate"
  /\ pc' = IF IsError(ValidateTaxReturnInput(taxReturn)) THEN "rejected" ELSE "income"
  /\ UNCHANGED << taxReturn, stages, returned, warnings, save_calls >>
  /\ UNCHANGED << databaseVars, repositoryVars, concurrentVars, toolVars >>
  /\ UNCHANGED << bracketVars, taxComputationVars, prefVars, creditsVars, deductionVars, ficaVars, summaryVars >>

IncomeStage ==
  /\ pc = "income"
  /\ StageDone("income", run_income_workflow(taxReturn), "fica")

FicaStage ==
  /\ pc = "fica"
  /\ StageDone("fica", run_fica_workflow(stages.income, taxReturn.filing_status), "agi")

AgiStage ==
  /\ pc = "agi"
  /\ StageDone("agi", run_agi_workflow(taxReturn, stages.income, stages.fica), "deduction")

DeductionStage(quotient_rounded_down) ==
  /\ pc = "deduction"
  /\ StageDone("deductions",
               run_deduction_workflow(taxReturn, stages.income, stages.agi,
                                      quotient_rounded_down),
               "tax_computation")

TaxComputationStage ==
  /\ pc = "tax_computation"
  /\ StageDone("tax_computation",
               run_tax_computation_workflow(stages.income, stages.agi, stages.deductions,
                                            taxReturn.filing_status),
               "credits")

CreditsStage ==
  /\ pc = "credits"
  /\ StageDone("credits",
               run_credits_workflow(taxReturn.credits.num_qualifying_children,
                                    stages.agi.agi, taxReturn.filing_status,
                                    stages.tax_computation.total_income_tax),
               "summary")

SummaryStage ==
  /\ pc = "summary"
  /\ StageDone("summary",
               run_summary_workflow(taxReturn, stages.income, stages.agi,
                                    stages.deductions, stages.tax_computation,
                                    stages.credits, stages.fica),
               "result")

\* result = FullTaxCalculationResult(...)
BuildResult ==
  /\ pc = "result"
  /\ StageDone("result",
               [income |-> stages.income, fica |-> stages.fica, agi |-> stages.agi,
                deductions |-> stages.deductions,
                tax_computation |-> stages.tax_computation,
                credits |-> stages.credits, summary |-> stages.summary],
               "persist")

\* save_calculation(tax_return, result) inserts the row and commits
Persist ==
  /\ pc = "persist"
  /\ save_calls' = Append(save_calls, [tax_input |-> taxReturn, result |-> stages.result])
  /\ LET db == get_db(connection, connections_opened)
         saved == save_calculation(tax_calculations, sqlite_sequence, taxReturn, stages.result)
     IN  /\ connection' = db.connection
         /\ connections_opened' = db.connections_opened
         /\ tax_calculations' = saved.tax_calculations
         /\ sqlite_sequence' = saved.sqlite_sequence
  /\ pc' = "return"
  /\ UNCHANGED << taxReturn, stages, returned, warnings >>
  /\ UNCHANGED << repositoryVars, concurrentVars, toolVars >>
  /\ UNCHANGED << bracketVars, taxComputationVars, prefVars, creditsVars, deductionVars, ficaVars, summaryVars >>

\* save_calculation raises, in sqlite3.connect (connected is FALSE) or after
\* it: no row is committed and the except clause logs a warning
PersistFails(connected) ==
  /\ pc = "persist"
  /\ connected \/ connection = None
  /\ save_calls' = Append(save_calls, [tax_input |-> taxReturn, result |-> stages.result])
  /\ LET db == get_db(connection, connections_opened)
     IN  /\ connection' = IF connected THEN db.connection ELSE connection
         /\ connections_opened' =
              IF connected THEN db.connections_opened ELSE connections_opened
  /\ warnings' = warnings + 1
  /\ pc' = "return"
  /\ UNCHANGED << taxReturn, stages, returned, tax_calculations, sqlite_sequence >>
  /\ UNCHANGED << repositoryVars, concurrentVars, toolVars >>
  /\ UNCHANGED << bracketVars, taxComputationVars, prefVars, creditsVars, deductionVars, ficaVars, summaryVars >>

ResultReturnedMutant(result, persisted) == IF persisted THEN result ELSE Idle

\* return result: the statement follows the try block
ResultReturned(result, persisted) == result

Return ==
  /\ pc = "return"
  /\ returned' = ResultReturned(stages.result, warnings = 0)
  /\ pc' = "done"
  /\ UNCHANGED << taxReturn, stages, warnings, save_calls >>
  /\ UNCHANGED << databaseVars, repositoryVars, concurrentVars, toolVars >>
  /\ UNCHANGED << bracketVars, taxComputationVars, prefVars, creditsVars, deductionVars, ficaVars, summaryVars >>

W2Income(wages, federal_withholding) ==
  [wages |-> wages, federal_withholding |-> federal_withholding,
   social_security_wages |-> 0, medicare_wages |-> 0]

Income1099NEC(compensation) == [compensation |-> compensation]

Income1099INT(interest) == [interest |-> interest]

Income1099DIV(ordinary_dividends, qualified_dividends) ==
  [ordinary_dividends |-> ordinary_dividends, qualified_dividends |-> qualified_dividends]

Income1099B(short_term_gains, long_term_gains) ==
  [short_term_gains |-> short_term_gains, long_term_gains |-> long_term_gains]

\* the lists of W-2 records of the explored returns; with the interest and
\* dividends of InvestmentChoices, wages of 186,500.00 alone make an AGI of
\* exactly 200,000.00
W2Choices ==
  { << >>,
    << W2Income(7500000, 900000) >>,
    << W2Income(18650000, 2800000) >>,
    << W2Income(15000000, 3000000), W2Income(6000000, 500000) >> }

NecChoices == { << >>, << Income1099NEC(4000000) >> }

\* interest and dividend records together
InvestmentChoices ==
  { [int |-> << >>, div |-> << >>],
    [int |-> << Income1099INT(50000) >>,
     div |-> << Income1099DIV(300000, 200000), Income1099DIV(1000000, 1000000) >>] }

\* no 1099-B, a long-term loss alone, gains, and a net loss over two records
BrokerChoices ==
  { << >>,
    << Income1099B(0, 0 - 500000) >>,
    << Income1099B(100000, 3000000) >>,
    << Income1099B(0 - 300000, 1000000), Income1099B(0, 0 - 2000000) >> }

\* the above-the-line fields hsa, student loan, educator, ira, health insurance
AboveLineChoices == { << 0, 0, 0, 0, 0 >>, << 400000, 250000, 30000, 700000, 500000 >> }

PipelineItemizedChoices ==
  { << >>, << ItemizedDeductions(1000000, 1500000, 1800000, 500000, 0, 10000) >> }

TaxReturnInput(fs, w2s, nec, inv, b, item, above, children) ==
  [filing_status |-> fs, is_over_65 |-> FALSE, is_blind |-> FALSE,
   w2s |-> w2s, income_1099_nec |-> nec, income_1099_int |-> inv.int,
   income_1099_div |-> inv.div, income_1099_b |-> b,
   itemized_deductions |-> item, force_standard_deduction |-> FALSE,
   hsa_deduction |-> above[1], student_loan_interest |-> above[2],
   educator_expenses |-> above[3], ira_deduction |-> above[4],
   self_employed_health_insurance |-> above[5],
   credits |-> [num_qualifying_children |-> children],
   estimated_payments |-> 0]

\* the request bodies that pass validation
ValidRequests ==
  { TaxReturnInput(fs, w2s, nec, inv, b, item, above, children) :
      fs \in FilingStatus, w2s \in W2Choices, nec \in NecChoices,
      inv \in InvestmentChoices, b \in BrokerChoices,
      item \in PipelineItemizedChoices, above \in AboveLineChoices,
      children \in 0..MaxChildren }

NoInvestments == [int |-> << >>, div |-> << >>]

\* request bodies that fail validation: a negative amount, a 1099-DIV record
\* whose qualified dividends exceed its ordinary dividends (while the sums
\* over the records do not), a filing status that is not in the enumeration
InvalidRequests ==
  { TaxReturnInput(SINGLE, << W2Income(0 - 100, 0) >>, << >>, NoInvestments, << >>, << >>,
                   << 0, 0, 0, 0, 0 >>, 0),
    TaxReturnInput(SINGLE, << W2Income(7500000, 900000) >>, << >>,
                   [int |-> << >>,
                    div |-> << Income1099DIV(100000, 200000), Income1099DIV(500000, 0) >>],
                   << >>, << >>, << 0, 0, 0, 0, 0 >>, 1),
    TaxReturnInput("MARRIED", << W2Income(7500000, 900000) >>, << >>, NoInvestments,
                   << >>, << >>, << 0, 0, 0, 0, 0 >>, 0),
    TaxReturnInput(MFJ, << W2Income(7500000, 900000) >>, << >>, NoInvestments,
                   << >>, << >>, << 0, 0, 0 - 1, 0, 0 >>, 2) }

\* a request body has been posted; the connection is open (the application
\* has started) or not yet (calculate_full_tax is called on its own)
Init ==
  /\ taxReturn \in ValidRequests \cup InvalidRequests
  /\ pc = "validate"
  /\ stages = NoStages
  /\ returned = Idle
  /\ warnings = 0
  /\ save_calls = << >>
  /\ \E opened \in 0..1 :
       /\ connections_opened = opened
       /\ connection = IF opened = 0 THEN None ELSE opened
  /\ tax_calculations = << >>
  /\ sqlite_sequence = 0
  /\ RepositoryIdle
  /\ ConcurrentIdle
  /\ ToolsIdle
  /\ BracketIdle
  /\ PrefIdle
  /\ CreditsIdle
  /\ DeductionIdle
  /\ FicaIdle
  /\ SummaryIdle
  /\ TaxComputationIdle

Next ==
  \/ Validate
  \/ IncomeStage
  \/ FicaStage
  \/ AgiStage
  \/ \E quotient_rounded_down \in BOOLEAN : DeductionStage(quotient_rounded_down)
  \/ TaxComputationStage
  \/ CreditsStage
  \/ SummaryStage
  \/ BuildResult
  \/ Persist
  \/ \E connected \in BOOLEAN : PersistFails(connected)
  \/ Return

Spec == Init /\ [][Next]_vars

\* the FullTaxCalculationResult calculate_full_tax builds from its argument
\* the stages are composed one operator a stage, each handing the results so
\* far to the next, as the local variables of calculate_full_tax do
ResultAfterCredits(tax_return, income, fica, agi, deductions, tax_computation, credits) ==
  [income |-> income, fica |-> fica, agi |-> agi, deductions |-> deductions,
   tax_computation |-> tax_computation, credits |-> credits,
   summary |-> run_summary_workflow(tax_return, income, agi, deductions,
                                    tax_computation, credits, fica)]

ResultAfterTaxComputation(tax_return, income, fica, agi, deductions, tax_computation) ==
  ResultAfterCredits(tax_return, income, fica, agi, deductions, tax_computation,
                     run_credits_workflow(tax_return.credits.num_qualifying_children, agi.agi,
                                          tax_return.filing_status,
                                          tax_computation.total_income_tax))

ResultAfterDeductions(tax_return, income, fica, agi, deductions) ==
  ResultAfterTaxComputation(tax_return, income, fica, agi, deductions,
                            run_tax_computation_workflow(income, agi, deductions,
                                                         tax_return.filing_status))

ResultAfterAgi(tax_return, quotient_rounded_down, income, fica, agi) ==
  ResultAfterDeductions(tax_return, income, fica, agi,
                        run_deduction_workflow(tax_return, income, agi, quotient_rounded_down))

ResultAfterFica(tax_return, quotient_rounded_down, income, fica) ==
  ResultAfterAgi(tax_return, quotient_rounded_down, income, fica,
                 run_agi_workflow(tax_return, income, fica))

ResultAfterIncome(tax_return, quotient_rounded_down, income) ==
  ResultAfterFica(tax_return, quotient_rounded_down, income,
                  run_fica_workflow(income, tax_return.filing_status))

FullTaxCalculationResult(tax_return, quotient_rounded_down) ==
  ResultAfterIncome(tax_return, quotient_rounded_down, run_income_workflow(tax_return))

(***************************************************************************)
(* Concurrent calls of calculate_full_tax (the route is a plain function,  *)
(* run on a thread of the worker pool).  Each call has its own locals; the *)
(* calls share db._connection, the table and the logger.                   *)
(***************************************************************************)
MaxCalls == 2

Calls == 1..MaxCalls

\* the arguments of the concurrent calls
ConcurrentInputs ==
  { TaxReturnInput(SINGLE, << W2Income(7500000, 900000) >>, << >>, NoInvestments, << >>,
                   << >>, << 0, 0, 0, 0, 0 >>, 0),
    TaxReturnInput(MFJ, << W2Income(15000000, 3000000), W2Income(6000000, 500000) >>,
                   << Income1099NEC(4000000) >>,
                   [int |-> << Income1099INT(50000) >>,
                    div |-> << Income1099DIV(300000, 200000),
                               Income1099DIV(1000000, 1000000) >>],
                   << Income1099B(100000, 3000000) >>, << >>,
                   << 400000, 250000, 30000, 700000, 500000 >>, 2) }

\* calculate_full_tax(tax_return) has been called; argument keeps the value
\* tax_return had at the call
NewCall(tax_return) ==
  [argument |-> tax_return, tax_return |-> tax_return, pc |-> "income",
   stages |-> NoStages, conn |-> None, returned |-> Idle]

StagePositions ==
  { "income", "fica", "agi", "deduction", "tax_computation", "credits", "summary", "result" }

\* the local variable the statement at position p assigns
StageVariable(p) == IF p = "deduction" THEN "deductions" ELSE p

StageAfterMutant(p) ==
  CASE p = "income" -> "fica"
    [] p = "fica" -> "agi"
    [] p = "agi" -> "deduction"
    [] p = "deduction" -> "tax_computation"
    [] p = "tax_computation" -> "credits"
    [] p = "credits" -> "summary"
    [] p = "summary" -> "result"
    [] p = "result" -> "return"

\* the position after the statement at position p
StageAfter(p) ==
  CASE p = "income" -> "fica"
    [] p = "fica" -> "agi"
    [] p = "agi" -> "deduction"
    [] p = "deduction" -> "tax_computation"
    [] p = "tax_computation" -> "credits"
    [] p = "credits" -> "summary"
    [] p = "summary" -> "result"
    [] p = "result" -> "persist"

\* the value the statement at the call's position assigns
StageResult(call, quotient_rounded_down) ==
  CASE call.pc = "income" -> run_income_workflow(call.tax_return)
    [] call.pc = "fica" ->
         run_fica_workflow(call.stages.income, call.tax_return.filing_status)
    [] call.pc = "agi" ->
         run_agi_workflow(call.tax_return, call.stages.income, call.stages.fica)
    [] call.pc = "deduction" ->
         run_deduction_workflow(call.tax_return, call.stages.income, call.stages.agi,
                                quotient_rounded_down)
    [] call.pc = "tax_computation" ->
         run_tax_computation_workflow(call.stages.income, call.stages.agi,
                                      call.stages.deductions,
                                      call.tax_return.filing_status)
    [] call.pc = "credits" ->
         run_credits_workflow(call.tax_return.credits.num_qualifying_children,
                              call.stages.agi.agi, call.tax_return.filing_status,
                              call.stages.tax_computation.total_income_tax)
    [] call.pc = "summary" ->
         run_summary_workflow(call.tax_return, call.stages.income, call.stages.agi,
                              call.stages.deductions, call.stages.tax_computation,
                              call.stages.credits, call.stages.fica)
    [] call.pc = "result" ->
         [income |-> call.stages.income, fica |-> call.stages.fica,
          agi |-> call.stages.agi, deductions |-> call.stages.deductions,
          tax_computation |-> call.stages.tax_computation,
          credits |-> call.stages.credits, summary |-> call.stages.summary]

OtherComponentsUnchanged ==
  /\ UNCHANGED << bracketVars, taxComputationVars, prefVars, creditsVars, deductionVars, ficaVars, summaryVars >>
  /\ UNCHANGED << taxReturn, pc, stages, returned, repositoryVars, toolVars >>

\* call c runs its next stage: only its own locals change
CallStage(c, quotient_rounded_down) ==
  /\ calls[c].pc \in StagePositions
  /\ LET r == StageResult(calls[c], quotient_rounded_down)
     IN  calls' = [calls EXCEPT ![c].stages[StageVariable(calls[c].pc)] = r,
                                ![c].pc = IF IsError(r) THEN "raised"
                                          ELSE StageAfter(calls[c].pc)]
  /\ UNCHANGED << warnings, save_calls, databaseVars >>
  /\ OtherComponentsUnchanged

\* call c calls save_calculation(tax_return, result), which calls get_db():
\* the test of _connection
CallGetDb(c) ==
  /\ calls[c].pc = "persist"
  /\ save_calls' = Append(save_calls, [call |-> c, tax_input |-> calls[c].tax_return,
                                       result |-> calls[c].stages.result])
  /\ calls' = [calls EXCEPT ![c].conn = connection,
                            ![c].pc = IF connection = None THEN "init_db" ELSE "insert"]
  /\ UNCHANGED << warnings, databaseVars >>
  /\ OtherComponentsUnchanged

\* call c found no connection: init_db() opens one and makes _connection name it
CallInitDb(c) ==
  /\ calls[c].pc = "init_db"
  /\ LET db == init_db(connections_opened)
     IN  /\ connection' = db.connection
         /\ connections_opened' = db.connections_opened
         /\ calls' = [calls EXCEPT ![c].conn = db.connection, ![c].pc = "insert"]
  /\ UNCHANGED << warnings, save_calls, tax_calculations, sqlite_sequence >>
  /\ OtherComponentsUnchanged

\* the INSERT and the commit of call c
CallInsert(c) ==
  /\ calls[c].pc = "insert"
  /\ LET saved == save_calculation(tax_calculations, sqlite_sequence,
                                   calls[c].tax_return, calls[c].stages.result)
     IN  /\ tax_calculations' = saved.tax_calculations
         /\ sqlite_sequence' = saved.sqlite_sequence
  /\ calls' = [calls EXCEPT ![c].pc = "return"]
  /\ UNCHANGED << warnings, save_calls, connection, connections_opened >>
  /\ OtherComponentsUnchanged

\* sqlite3.connect, the INSERT or the commit of call c raises: the except
\* clause of calculate_full_tax logs a warning
CallPersistFails(c) ==
  /\ calls[c].pc \in { "init_db", "insert" }
  /\ warnings' = warnings + 1
  /\ calls' = [calls EXCEPT ![c].pc = "return"]
  /\ UNCHANGED << save_calls, databaseVars >>
  /\ OtherComponentsUnchanged

\* whether the save_calculation call of call c has inserted its row
Persisted(c) ==
  \E i \in DOMAIN tax_calculations :
     /\ tax_calculations[i].input_data = calls[c].tax_return
     /\ tax_calculations[i].result_data = calls[c].stages.result

CallReturn(c) ==
  /\ calls[c].pc = "return"
  /\ calls' = [calls EXCEPT ![c].returned = ResultReturned(calls[c].stages.result,
                                                            Persisted(c)),
                            ![c].pc = "done"]
  /\ UNCHANGED << warnings, save_calls, databaseVars >>
  /\ OtherComponentsUnchanged

InitConcurrent ==
  /\ calls \in [Calls -> { NewCall(tax_return) : tax_return \in ConcurrentInputs }]
  /\ warnings = 0
  /\ save_calls = << >>
  /\ \E opened \in 0..1 :
       /\ connections_opened = opened
       /\ connection = IF opened = 0 THEN None ELSE opened
  /\ tax_calculations = << >>
  /\ sqlite_sequence = 0
  /\ taxReturn = Idle
  /\ pc = "idle"
  /\ stages = Idle
  /\ returned = Idle
  /\ BracketIdle
  /\ PrefIdle
  /\ CreditsIdle
  /\ DeductionIdle
  /\ FicaIdle
  /\ SummaryIdle
  /\ RepositoryIdle
  /\ ToolsIdle
  /\ TaxComputationIdle

NextConcurrent ==
  \E c \in Calls :
     \/ \E quotient_rounded_down \in BOOLEAN : CallStage(c, quotient_rounded_down)
     \/ CallGetDb(c)
     \/ CallInitDb(c)
     \/ CallInsert(c)
     \/ CallPersistFails(c)
     \/ CallReturn(c)

SpecConcurrent == InitConcurrent /\ [][NextConcurrent]_vars

(***************************************************************************)
(* The functions of database/repository.py called in any order.            *)
(***************************************************************************)
MaxSaves == 3

\* the ids asked for: every id a save can return and one that none returns
CalcIds == 1..(MaxSaves + 1)

RepositoryUnchanged ==
  /\ UNCHANGED << bracketVars, taxComputationVars, prefVars, creditsVars, deductionVars, ficaVars, summaryVars >>
  /\ UNCHANGED << pipelineVars, concurrentVars, toolVars >>

\* conn = get_db(), the first statement of every repository function
ConnectionObtained ==
  LET db == get_db(connection, connections_opened)
  IN  /\ connection' = db.connection
      /\ connections_opened' = db.connections_opened

SaveCalculation(tax_input) ==
  /\ sqlite_sequence < MaxSaves
  /\ ConnectionObtained
  /\ LET result == FullTaxCalculationResult(tax_input, FALSE)
         saved == save_calculation(tax_calculations, sqlite_sequence, tax_input, result)
     IN  /\ tax_calculations' = saved.tax_calculations
         /\ sqlite_sequence' = saved.sqlite_sequence
         /\ repoCall' = [op |-> "save_calculation", calc_id |-> 0,
                         saved_id |-> saved.result, deleted |-> FALSE,
                         summaries |-> << >>, row |-> << >>,
                         before |-> tax_calculations]
         /\ repoLog' = [repoLog EXCEPT !.saved =
                          Append(@, [id |-> saved.result, tax_input |-> tax_input,
                                     result |-> result])]
  /\ RepositoryUnchanged

DeleteCalculation(calc_id) ==
  /\ ConnectionObtained
  /\ LET deleted == delete_calculation(tax_calculations, calc_id)
     IN  /\ tax_calculations' = deleted.tax_calculations
         /\ repoCall' = [op |-> "delete_calculation", calc_id |-> calc_id,
                         saved_id |-> 0, deleted |-> deleted.result,
                         summaries |-> << >>, row |-> << >>,
                         before |-> tax_calculations]
         /\ repoLog' = [repoLog EXCEPT !.deleted =
                          IF deleted.result THEN @ \cup { calc_id } ELSE @]
  /\ UNCHANGED sqlite_sequence
  /\ RepositoryUnchanged

ListCalculations ==
  /\ ConnectionObtained
  /\ repoCall' = [op |-> "list_calculations", calc_id |-> 0,
                  saved_id |-> 0, deleted |-> FALSE,
                  summaries |-> list_calculations(tax_calculations), row |-> << >>,
                  before |-> tax_calculations]
  /\ UNCHANGED << tax_calculations, sqlite_sequence, repoLog >>
  /\ RepositoryUnchanged

GetCalculation(calc_id) ==
  /\ ConnectionObtained
  /\ repoCall' = [op |-> "get_calculation", calc_id |-> calc_id,
                  saved_id |-> 0, deleted |-> FALSE, summaries |-> << >>,
                  row |-> get_calculation(tax_calculations, calc_id),
                  before |-> tax_calculations]
  /\ UNCHANGED << tax_calculations, sqlite_sequence, repoLog >>
  /\ RepositoryUnchanged

\* an empty table; the connection is open or not yet
InitRepository ==
  /\ repoCall = [op |-> "none", calc_id |-> 0, saved_id |-> 0, deleted |-> FALSE,
                 summaries |-> << >>, row |-> << >>, before |-> << >>]
  /\ repoLog = [saved |-> << >>, deleted |-> {}]
  /\ \E opened \in 0..1 :
       /\ connections_opened = opened
       /\ connection = IF opened = 0 THEN None ELSE opened
  /\ tax_calculations = << >>
  /\ sqlite_sequence = 0
  /\ BracketIdle
  /\ PrefIdle
  /\ CreditsIdle
  /\ DeductionIdle
  /\ FicaIdle
  /\ SummaryIdle
  /\ PipelineIdle
  /\ ConcurrentIdle
  /\ ToolsIdle
  /\ TaxComputationIdle

NextRepository ==
  \/ \E tax_input \in ConcurrentInputs : SaveCalculation(tax_input)
  \/ \E calc_id \in CalcIds : DeleteCalculation(calc_id)
  \/ ListCalculations
  \/ \E calc_id \in CalcIds : GetCalculation(calc_id)

SpecRepository == InitRepository /\ [][NextRepository]_vars

(***************************************************************************)
(* The tax computation workflow called on its own.                         *)
(***************************************************************************)
\* whole-dollar amounts, in cents: none, one dollar, amounts that reach
\* across the 0% tier and across the 15% tier of every filing status
TaxCompPreferentialAmounts == { 0, 100, 300000, 9500000, 60000000 }

\* ordinary taxable incomes at and around the thresholds of the filing
\* status, on whole dollars and (the last two) between them
TaxCompOrdinaryIncomes(fs) ==
  { 0 } \cup
  { u + d : u \in UpperBounds(CAPITAL_GAINS_THRESHOLDS[fs]),
            d \in { 0 - 200000, 0 - 100, 0, 100, 0 - 150, 50 } }

TaxComputationCall ==
  /\ IsIdle(taxCompResult)
  /\ taxCompResult' =
       run_tax_computation_workflow(taxCompArgs.income, taxCompArgs.agi_result,
                                    taxCompArgs.deductions, taxCompArgs.filing_status)
  /\ UNCHANGED taxCompArgs
  /\ UNCHANGED << bracketVars, prefVars, creditsVars, deductionVars, ficaVars, summaryVars >>
  /\ UNCHANGED << pipelineVars, databaseVars, repositoryVars, concurrentVars, toolVars >>

\* the fields of the stage results that run_tax_computation_workflow reads
InitTaxComputation ==
  /\ \E fs \in FilingStatus : \E ordinary \in TaxCompOrdinaryIncomes(fs) :
       \E divs \in TaxCompPreferentialAmounts : \E gains \in TaxCompPreferentialAmounts :
         taxCompArgs =
           [filing_status |-> fs,
            income |-> [net_investment_income |-> divs + gains],
            agi_result |-> [agi |-> ordinary + divs + gains],
            deductions |-> [ordinary_taxable_income |-> ordinary,
                            preferential_qualified_dividends |-> divs,
                            preferential_long_term_gains |-> gains]]
  /\ taxCompResult = Idle
  /\ BracketIdle
  /\ PrefIdle
  /\ CreditsIdle
  /\ DeductionIdle
  /\ FicaIdle
  /\ SummaryIdle
  /\ PipelineIdle
  /\ DatabaseIdle
  /\ RepositoryIdle
  /\ ConcurrentIdle
  /\ ToolsIdle

NextTaxComputation == TaxComputationCall

SpecTaxComputation == InitTaxComputation /\ [][NextTaxComputation]_vars

(***************************************************************************)
(* A tool called on its own, with arguments of either sign.                *)
(***************************************************************************)
\* amounts below, at and above zero
ToolAmounts == { 0 - 10000000, 0 - MaxAmountCents, 0 - 1, 0, 1, 30000000 }

ToolNames ==
  { "calculate_bracket_tax", "calculate_fica", "calculate_niit",
    "calculate_qualified_dividend_tax", "calculate_capital_gains_tax", "apply_credit" }

ToolCalled(tool) == toolArgs.tool = tool /\ IsIdle(toolResult)

ToolReturns(r) ==
  /\ toolResult' = r
  /\ UNCHANGED toolArgs
  /\ UNCHANGED << bracketVars, taxComputationVars, prefVars, creditsVars, deductionVars, ficaVars, summaryVars >>
  /\ UNCHANGED << pipelineVars, databaseVars, repositoryVars, concurrentVars >>

\* calculate_bracket_tax(taxable_income = a, filing_status)
CallBracketTax ==
  /\ ToolCalled("calculate_bracket_tax")
  /\ ToolReturns(calculate_bracket_tax(toolArgs.a, toolArgs.filing_status))

\* calculate_fica(w2_wages = a, self_employment_income = b, filing_status)
CallFica ==
  /\ ToolCalled("calculate_fica")
  /\ ToolReturns(calculate_fica(toolArgs.a, toolArgs.b, toolArgs.filing_status))

\* calculate_niit(magi = a, net_investment_income = b, filing_status)
CallNiit ==
  /\ ToolCalled("calculate_niit")
  /\ ToolReturns(calculate_niit(toolArgs.a, toolArgs.b, toolArgs.filing_status))

\* calculate_qualified_dividend_tax(qualified_dividends = a, ordinary_income = b, filing_status)
CallQualifiedDividendTax ==
  /\ ToolCalled("calculate_qualified_dividend_tax")
  /\ ToolReturns(calculate_qualified_dividend_tax(toolArgs.a, toolArgs.b,
                                                  toolArgs.filing_status))

\* calculate_capital_gains_tax(short_term_gains = c, long_term_gains = a,
\* ordinary_income = b, filing_status)
CallCapitalGainsTax ==
  /\ ToolCalled("calculate_capital_gains_tax")
  /\ ToolReturns(calculate_capital_gains_tax(toolArgs.c, toolArgs.a, toolArgs.b,
                                             toolArgs.filing_status))

\* apply_credit(tax_owed = a, credit_amount = b, is_refundable)
CallApplyCredit ==
  /\ ToolCalled("apply_credit")
  /\ ToolReturns(apply_credit(toolArgs.a, toolArgs.b, toolArgs.is_refundable))

InitTools ==
  /\ \E tool \in ToolNames : \E a \in ToolAmounts : \E b \in ToolAmounts :
       \E c \in { 0 - 1, 0 } : \E fs \in { SINGLE, MFJ } : \E refundable \in BOOLEAN :
         toolArgs = [tool |-> tool, a |-> a, b |-> b, c |-> c, filing_status |-> fs,
                     is_refundable |-> refundable]
  /\ toolResult = Idle
  /\ BracketIdle
  /\ PrefIdle
  /\ CreditsIdle
  /\ DeductionIdle
  /\ FicaIdle
  /\ SummaryIdle
  /\ PipelineIdle
  /\ DatabaseIdle
  /\ RepositoryIdle
  /\ ConcurrentIdle
  /\ TaxComputationIdle

NextTools ==
  \/ CallBracketTax
  \/ CallFica
  \/ CallNiit
  \/ CallQualifiedDividendTax
  \/ CallCapitalGainsTax
  \/ CallApplyCredit

SpecTools == InitTools /\ [][NextTools]_vars

(***************************************************************************)
(* calculate_fica called on its own.                                       *)
(***************************************************************************)
\* wages below, at and above the Social Security wage base, at and just above
\* the additional Medicare threshold, and 50,000.00 below that threshold
FicaWages(fs) ==
  {0, 5000000, 15000000, SOCIAL_SECURITY_WAGE_BASE - 1, SOCIAL_SECURITY_WAGE_BASE,
   SOCIAL_SECURITY_WAGE_BASE + 1}
    \cup { ADDITIONAL_MEDICARE_THRESHOLDS[fs] + e : e \in {0 - 5000000, 0, 1} }

\* the self-employment income whose 92.35% lies strictly within half a cent
\* below threshold + 5.00
FicaSeIncomeAboveThreshold(fs) ==
  CASE fs \in {SINGLE, HOH} -> 21657282
    [] fs \in {MFJ, QSS} -> 27071467
    [] fs = MFS -> 13536004

\* no self-employment income, one cent, amounts whose SE base is 36,940.00,
\* exactly 50,000.00 (54,141.85) and 55,410.00, and one above the threshold
FicaSeIncomes(fs) ==
  {0, 1, 4000000, 5414185, 6000000, FicaSeIncomeAboveThreshold(fs)}

FicaCall ==
  /\ IsIdle(ficaResult)
  /\ ficaResult' = calculate_fica(ficaArgs.w2_wages, ficaArgs.self_employment_income,
                                  ficaArgs.filing_status)
  /\ ficaLocals' = FicaLocals(ficaArgs.w2_wages, ficaArgs.self_employment_income,
                              ficaArgs.filing_status)
  /\ UNCHANGED << ficaArgs, bracketVars, taxComputationVars, prefVars, creditsVars, deductionVars,
                  summaryVars, pipelineVars, databaseVars, repositoryVars, concurrentVars, toolVars >>

InitFica ==
  /\ \E fs \in FilingStatus : \E wages \in FicaWages(fs) : \E se \in FicaSeIncomes(fs) :
       ficaArgs = [w2_wages |-> wages, self_employment_income |-> se,
                   filing_status |-> fs]
  /\ ficaResult = Idle
  /\ ficaLocals = Idle
  /\ BracketIdle
  /\ PrefIdle
  /\ CreditsIdle
  /\ DeductionIdle
  /\ SummaryIdle
  /\ PipelineIdle
  /\ DatabaseIdle
  /\ RepositoryIdle
  /\ ConcurrentIdle
  /\ ToolsIdle
  /\ TaxComputationIdle

NextFica == FicaCall

SpecFica == InitFica /\ [][NextFica]_vars

(***************************************************************************)
(* The summary workflow called on its own, twice: the second call differs  *)
(* from the first in the FicaResult only.                                  *)
(***************************************************************************)
SummaryIncomeTaxes == {0, 1, 1200000, 4000000}

SummaryEstimatedPayments == {0, 250000, 1200000}

SummaryGrossIncomes == {0, 7500000}

\* FicaResult of a wage earner, for the first call
SummaryFicaResults(fs) == { calculate_fica(w, 0, fs) : w \in {0, 7500000} }

\* FicaResult of other wages with self-employment income, for the second call
SummaryOtherFicaResults(fs) == { calculate_fica(w, 4000000, fs) : w \in {5000000, 21000000} }

SummaryCallWith(fica) ==
  run_summary_workflow(summaryArgs.tax_return, summaryArgs.income, summaryArgs.agi_result,
                       summaryArgs.deductions, summaryArgs.tax_computation,
                       summaryArgs.credits, fica)

SummaryCall ==
  /\ IsIdle(summaryResult)
  /\ summaryResult' = SummaryCallWith(summaryArgs.fica)
  /\ UNCHANGED << summaryArgs, summaryPrev, bracketVars, taxComputationVars, prefVars, creditsVars,
                  deductionVars, ficaVars, pipelineVars, databaseVars, repositoryVars, concurrentVars, toolVars >>

SummaryCallOtherFica ==
  /\ ~IsIdle(summaryResult)
  /\ IsIdle(summaryPrev)
  /\ summaryPrev' = summaryResult
  /\ summaryResult' = SummaryCallWith(summaryArgs.other_fica)
  /\ UNCHANGED << summaryArgs, bracketVars, taxComputationVars, prefVars, creditsVars,
                  deductionVars, ficaVars, pipelineVars, databaseVars, repositoryVars, concurrentVars, toolVars >>

InitSummary ==
  /\ \E fs \in FilingStatus : \E w2s \in W2Choices : \E est \in SummaryEstimatedPayments :
       \E tax \in SummaryIncomeTaxes : \E children \in 0..1 :
         \E gross \in SummaryGrossIncomes :
           \E fica \in SummaryFicaResults(fs) : \E other \in SummaryOtherFicaResults(fs) :
             summaryArgs =
               [tax_return |-> [filing_status |-> fs, w2s |-> w2s,
                                estimated_payments |-> est],
                income |-> [total_gross_income |-> gross],
                agi_result |-> [agi |-> gross],
                deductions |-> [deduction_amount |-> STANDARD_DEDUCTION[fs],
                                taxable_income |-> Max(gross - STANDARD_DEDUCTION[fs], 0)],
                tax_computation |-> [ordinary_tax |-> tax, qualified_dividend_tax |-> 0,
                                     capital_gains_tax |-> 0, niit |-> 0,
                                     total_income_tax |-> tax],
                credits |-> run_credits_workflow(children, gross, fs, tax),
                fica |-> fica,
                other_fica |-> other]
  /\ summaryResult = Idle
  /\ summaryPrev = Idle
  /\ BracketIdle
  /\ PrefIdle
  /\ CreditsIdle
  /\ DeductionIdle
  /\ FicaIdle
  /\ PipelineIdle
  /\ DatabaseIdle
  /\ RepositoryIdle
  /\ ConcurrentIdle
  /\ ToolsIdle
  /\ TaxComputationIdle

NextSummary == SummaryCall \/ SummaryCallOtherFica

SpecSummary == InitSummary /\ [][NextSummary]_vars

(***************************************************************************)
(* Properties of the preferential rate engine.                             *)
(***************************************************************************)
RECURSIVE SumTaxable(_)
SumTaxable(breakdown) ==
  IF breakdown = << >> THEN 0
  ELSE Head(breakdown).taxable_in_bracket + SumTaxable(Tail(breakdown))

RECURSIVE SumTax(_)
SumTax(breakdown) ==
  IF breakdown = << >> THEN 0
  ELSE Head(breakdown).tax_in_bracket + SumTax(Tail(breakdown))

\* the amount of the call lies on a tier threshold k of its filing status
OnThreshold(call, k) ==
  call.ordinary_income = CAPITAL_GAINS_THRESHOLDS[call.filing_status][k].upper_bound

\* C1: a positive amount is placed exactly once directly above the ordinary
\* income: the taxable_in_bracket entries sum to the amount, the first entry
\* starts at the ordinary income, each later entry starts where the previous
\* one ended, no entry extends above its tier's upper bound, and an ordinary
\* income exactly on a tier threshold has nothing taxed at that tier's rate
\* and the whole amount taxed from the next tier on.
C1_StackedExactlyOnce ==
  ~IsIdle(prefCall) =>
    LET bd == prefCall.breakdown
        thresholds == CAPITAL_GAINS_THRESHOLDS[prefCall.filing_status]
    IN  /\ Len(bd) >= 1
        /\ SumTaxable(bd) = prefCall.amount
        /\ bd[1].bracket_bottom = prefCall.ordinary_income
        /\ \A i \in 2..Len(bd) :
             bd[i].bracket_bottom = bd[i-1].bracket_bottom + bd[i-1].taxable_in_bracket
        /\ \A i \in 1..Len(bd) :
             bd[i].bracket_top # None =>
               bd[i].bracket_bottom + bd[i].taxable_in_bracket <= bd[i].bracket_top
        /\ \A k \in 1..2 :
             OnThreshold(prefCall, k) =>
               /\ \A i \in 1..Len(bd) : \A j \in 1..k : bd[i].rate # thresholds[j].rate
               /\ bd[1].rate = thresholds[k + 1].rate

\* an amount stacked on an ordinary income exactly on the 0% threshold and
\* reaching into the 20% tier
C1_Witness ==
  /\ ~IsIdle(prefCall)
  /\ OnThreshold(prefCall, 1)
  /\ Len(prefCall.breakdown) = 2
  /\ prefCall.breakdown[2].rate = 20

\* C2: for a fixed filing status and amount the preferential tax is
\* non-decreasing in the ordinary income the amount is stacked on.
C2_PrefTaxMonotone ==
  ~IsIdle(prefPrev) => prefPrev.tax <= prefCall.tax

(***************************************************************************)
(* Properties of the bracket tax engine.                                   *)
(***************************************************************************)
\* C3: the tax_in_bracket entries of the breakdown sum to total_tax exactly.
C3_BreakdownSumsToTotal ==
  ~IsIdle(bracketResult) => SumTax(bracketResult.breakdown) = bracketResult.total_tax

\* a result over several brackets in which a bracket's tax was rounded to cents
C3_Witness ==
  /\ ~IsIdle(bracketResult)
  /\ Len(bracketResult.breakdown) >= 2
  /\ \E i \in 1..Len(bracketResult.breakdown) :
       LET e == bracketResult.breakdown[i]
       IN  ((e.taxable_in_bracket % 100) * e.rate) % 100 # 0

\* C4: for a fixed filing status total_tax is non-decreasing in taxable income.
C4_BracketTaxMonotone ==
  ~IsIdle(bracketPrev) => bracketPrev.total_tax <= bracketResult.total_tax

\* two calls whose incomes lie on the two sides of a bracket boundary
C4_Witness ==
  /\ ~IsIdle(bracketPrev)
  /\ bracketPrev.taxable_income < bracketResult.taxable_income
  /\ Len(bracketPrev.breakdown) >= 1
  /\ Len(bracketPrev.breakdown) < Len(bracketResult.breakdown)

\* C5 as stated: effective_rate lies in [0, 1) and is 0 exactly when the
\* taxable income is 0.
C5_EffectiveRateZeroOnlyAtZero ==
  ~IsIdle(bracketResult) =>
    /\ bracketResult.effective_rate >= 0
    /\ bracketResult.effective_rate < 1000000
    /\ (bracketResult.effective_rate = 0 <=> bracketResult.taxable_income = 0)

\* C5 amended: effective_rate lies in [0, 1), it is 0 when the taxable
\* income is 0 and strictly positive for every taxable income of at least
\* 5 cents; it is 0 as well for incomes of 1 to 4 cents, whose tax rounds to 0.
C5_EffectiveRate ==
  ~IsIdle(bracketResult) =>
    /\ bracketResult.effective_rate >= 0
    /\ bracketResult.effective_rate < 1000000
    /\ (bracketResult.taxable_income = 0 => bracketResult.effective_rate = 0)
    /\ (bracketResult.taxable_income >= 5 => bracketResult.effective_rate > 0)
    /\ (bracketResult.taxable_income \in 1..4 => bracketResult.effective_rate = 0)

\* the smallest income with a positive tax: 5 cents, taxed 1 cent
C5_Witness ==
  /\ ~IsIdle(bracketResult)
  /\ bracketResult.taxable_income = 5
  /\ bracketResult.effective_rate = 200000

LowerBound(brackets, i) == IF i = 1 THEN 0 ELSE brackets[i - 1].upper_bound

\* C6: for a positive income marginal_rate is the rate of the highest bracket
\* whose lower bound is strictly below the income (so an income equal to a
\* bracket's upper bound reports that bracket's rate), and it is 10% for income 0.
C6_MarginalRate ==
  ~IsIdle(bracketResult) =>
    LET brackets == FEDERAL_BRACKETS[bracketResult.filing_status]
        income == bracketResult.taxable_income
    IN  /\ income = 0 => bracketResult.marginal_rate = 10
        /\ income > 0 =>
             \E i \in 1..Len(brackets) :
               /\ LowerBound(brackets, i) < income
               /\ \A j \in (i + 1)..Len(brackets) : LowerBound(brackets, j) >= income
               /\ bracketResult.marginal_rate = brackets[i].rate
        /\ \A i \in 1..Len(brackets) :
             income = brackets[i].upper_bound =>
               bracketResult.marginal_rate = brackets[i].rate

\* an income exactly on the upper bound of the 12% bracket
C6_Witness ==
  /\ ~IsIdle(bracketResult)
  /\ bracketResult.taxable_income =
       FEDERAL_BRACKETS[bracketResult.filing_status][2].upper_bound
  /\ bracketResult.marginal_rate = 12

(***************************************************************************)
(* Properties of the credits workflow.                                     *)
(***************************************************************************)
\* the smallest integer not below n/d, for n >= 0 and d > 0
Ceiling(n, d) == (n + d - 1) \div d

\* C7: the Child Tax Credit is max($2,000 x children - $50 x ceil(excess /
\* $1,000), 0) with excess = max(AGI - threshold, 0): an excess that is not a
\* whole multiple of $1,000 counts as the next whole $1,000.
C7_PhaseoutRoundsUp ==
  ~IsIdle(creditsResult) =>
    LET excess == Max(creditsArgs.agi - CHILD_TAX_CREDIT_PHASEOUT[creditsArgs.filing_status], 0)
    IN  creditsResult.child_tax_credit =
          Max(200000 * creditsArgs.num_qualifying_children
                - 5000 * Ceiling(excess, 100000), 0)

\* C8: tax_after_credits = total_income_tax - total_credits_applied; the
\* non-refundable step never takes the tax below 0, and tax_after_credits is
\* negative only when a refundable credit was applied after the
\* non-refundable step had reduced the tax to 0.
C8_TaxAfterCredits ==
  ~IsIdle(creditsResult) =>
    /\ creditsResult.tax_after_credits =
         creditsArgs.total_income_tax - creditsResult.total_credits_applied
    /\ creditsLocals.nonrefundable_result.tax_after >= 0
    /\ creditsResult.tax_after_credits < 0 =>
         /\ creditsLocals.nonrefundable_result.tax_after = 0
         /\ creditsResult.refundable_ctc_applied > 0
         /\ creditsResult.tax_after_credits = 0 - creditsResult.refundable_ctc_applied

\* a credit larger than the tax: the rest is refunded and the tax ends below 0
C8_Witness ==
  /\ ~IsIdle(creditsResult)
  /\ creditsArgs.total_income_tax > 0
  /\ creditsResult.nonrefundable_ctc_applied = creditsArgs.total_income_tax
  /\ creditsResult.tax_after_credits < 0

(***************************************************************************)
(* Properties of the deduction workflow.                                   *)
(***************************************************************************)
\* the preferential income of the call exceeds its taxable income
PreferentialCapped ==
  deductionArgs.income.qualified_dividends + Max(deductionArgs.income.long_term_gains, 0)
    > deductionResult.taxable_income

\* C9: ordinary_taxable_income + preferential_qualified_dividends +
\* preferential_long_term_gains = taxable_income and all three are >= 0; when
\* the preferential income exceeds taxable income, ordinary_taxable_income is
\* 0 and the two preferential parts sum to taxable_income exactly.
C9_PartitionSumsToTaxable ==
  ~IsIdle(deductionResult) =>
    LET d == deductionResult
    IN  /\ d.ordinary_taxable_income + d.preferential_qualified_dividends
             + d.preferential_long_term_gains = d.taxable_income
        /\ d.ordinary_taxable_income >= 0
        /\ d.preferential_qualified_dividends >= 0
        /\ d.preferential_long_term_gains >= 0
        /\ PreferentialCapped =>
             /\ d.ordinary_taxable_income = 0
             /\ d.preferential_qualified_dividends + d.preferential_long_term_gains
                  = d.taxable_income

\* dividends and gains of 13 cents each capped to a taxable income of 17
\* cents: the scaled dividends are 8.5 cents before rounding
C9_Witness ==
  /\ ~IsIdle(deductionResult)
  /\ PreferentialCapped
  /\ deductionResult.taxable_income = 17
  /\ deductionArgs.income.qualified_dividends = 13
  /\ deductionArgs.income.long_term_gains = 13
  /\ deductionResult.preferential_qualified_dividends \in {8, 9}
  /\ deductionResult.preferential_long_term_gains > 0

(***************************************************************************)
(* Properties of the full calculation.                                     *)
(***************************************************************************)
\* C10: the summary of every full calculation on a valid TaxReturnInput
\* satisfies total_income >= agi >= taxable_income >= 0.
C10_IncomeOrdering ==
  pc = "done" =>
    /\ returned.summary.total_income >= returned.summary.agi
    /\ returned.summary.agi >= returned.summary.taxable_income
    /\ returned.summary.taxable_income >= 0

(***************************************************************************)
(* Properties of the tax computation workflow.                             *)
(***************************************************************************)
\* the tax computation stage of calculate_full_tax has returned
TaxComputationDone == ~IsIdle(stages) /\ ~IsIdle(stages.tax_computation)

\* C11: in every result of run_tax_computation_workflow, total_income_tax is
\* exactly the sum of the four rounded components returned with it:
\* ordinary_tax + qualified_dividend_tax + capital_gains_tax + niit.
C11_TotalIsSumOfComponents ==
  (TaxComputationDone /\ ~IsError(stages.tax_computation)) =>
    LET t == stages.tax_computation
    IN  t.total_income_tax =
          t.ordinary_tax + t.qualified_dividend_tax + t.capital_gains_tax + t.niit

\* a result in which all four components are positive
C11_Witness ==
  /\ TaxComputationDone
  /\ ~IsError(stages.tax_computation)
  /\ stages.tax_computation.ordinary_tax > 0
  /\ stages.tax_computation.qualified_dividend_tax > 0
  /\ stages.tax_computation.capital_gains_tax > 0
  /\ stages.tax_computation.niit > 0
  /\ stages.tax_computation.total_income_tax =
       stages.tax_computation.ordinary_tax
         + stages.tax_computation.qualified_dividend_tax
         + stages.tax_computation.capital_gains_tax + stages.tax_computation.niit

(***************************************************************************)
(* Properties of the summary workflow.                                     *)
(***************************************************************************)
\* the FicaResult the latest run_summary_workflow call was given
SummaryFicaUsed ==
  IF IsIdle(summaryPrev) THEN summaryArgs.fica ELSE summaryArgs.other_fica

\* sum of W-2 federal withholding + estimated payments of the summarised return
SummaryPayments ==
  SumField(summaryArgs.tax_return.w2s, "federal_withholding")
    + summaryArgs.tax_return.estimated_payments

\* C12: in every summary, total_tax = income_tax_after_credits + total_fica and
\* refund_or_owed = income_tax_after_credits - (W-2 withholding + estimated
\* payments); refund_or_owed is negative exactly when the payments exceed the
\* income tax after credits (a refund) and positive exactly when they fall
\* short of it (owed); a second summary that differs in the FicaResult only
\* has the same refund_or_owed.
C12_SummaryTotals ==
  (~IsIdle(summaryResult)) =>
    /\ ~IsError(summaryResult)
    /\ summaryResult.income_tax_after_credits = summaryArgs.credits.tax_after_credits
    /\ summaryResult.total_fica = SummaryFicaUsed.total_fica
    /\ summaryResult.total_tax =
         summaryResult.income_tax_after_credits + summaryResult.total_fica
    /\ summaryResult.total_payments = SummaryPayments
    /\ summaryResult.refund_or_owed =
         summaryResult.income_tax_after_credits - SummaryPayments
    /\ (summaryResult.refund_or_owed < 0) <=>
         (SummaryPayments > summaryResult.income_tax_after_credits)
    /\ (summaryResult.refund_or_owed > 0) <=>
         (SummaryPayments < summaryResult.income_tax_after_credits)
    /\ (~IsIdle(summaryPrev)) =>
         summaryPrev.refund_or_owed = summaryResult.refund_or_owed

\* two summaries with different FICA, hence different total_tax, and the same
\* refund (FICA is larger than the whole refund)
C12_Witness ==
  /\ ~IsIdle(summaryResult)
  /\ ~IsIdle(summaryPrev)
  /\ summaryPrev.total_fica # summaryResult.total_fica
  /\ summaryPrev.total_tax # summaryResult.total_tax
  /\ summaryResult.refund_or_owed < 0
  /\ summaryResult.total_tax > 0
  /\ summaryPrev.refund_or_owed = summaryResult.refund_or_owed

(***************************************************************************)
(* Properties of the net investment income tax in the pipeline.            *)
(***************************************************************************)
\* interest + ordinary dividends + max(short-term + long-term gains, 0) of
\* the forms of the return
ReturnNetInvestmentIncome ==
  SumField(taxReturn.income_1099_int, "interest")
    + SumField(taxReturn.income_1099_div, "ordinary_dividends")
    + Max(SumField(taxReturn.income_1099_b, "short_term_gains")
            + SumField(taxReturn.income_1099_b, "long_term_gains"), 0)

\* C13: the NIIT charged by the pipeline is round(3.8% x min(NII, max(AGI -
\* threshold, 0))) with NII = interest + ordinary dividends + max(short-term
\* gains + long-term gains, 0); NII is never negative, and the NIIT is 0
\* whenever the AGI is at or below the threshold of the filing status.
C13_PipelineNiit ==
  (TaxComputationDone /\ ~IsError(stages.tax_computation)) =>
    LET threshold == NIIT_THRESHOLDS[taxReturn.filing_status]
        agi == stages.agi.agi
    IN  /\ stages.income.net_investment_income = ReturnNetInvestmentIncome
        /\ stages.income.net_investment_income >= 0
        /\ stages.tax_computation.niit =
             Quantize(Min(ReturnNetInvestmentIncome, Max(agi - threshold, 0)), 38, 1000)
        /\ (agi <= threshold) => stages.tax_computation.niit = 0
        /\ (pc = "done") => returned.summary.niit = stages.tax_computation.niit

\* a return with a net capital loss, an AGI above the threshold and NIIT due
C13_Witness ==
  /\ TaxComputationDone
  /\ ~IsError(stages.tax_computation)
  /\ SumField(taxReturn.income_1099_b, "short_term_gains")
       + SumField(taxReturn.income_1099_b, "long_term_gains") < 0
  /\ stages.agi.agi > NIIT_THRESHOLDS[taxReturn.filing_status]
  /\ stages.income.net_investment_income > 0
  /\ stages.tax_computation.niit > 0

(***************************************************************************)
(* Properties of calculate_fica.                                           *)
(***************************************************************************)
\* calculate_fica has returned a FicaResult
FicaReturned == ~IsIdle(ficaResult) /\ ~IsError(ficaResult)

\* C14: for wages >= 0, SE income >= 0 and every filing status, total_fica =
\* Social Security tax on wages + Medicare tax on wages + SE tax + additional
\* Medicare tax; the SE-tax deduction is neither added nor subtracted.
C14_TotalFica ==
  FicaReturned =>
    /\ ficaResult.total_fica =
         Quantize(Min(ficaArgs.w2_wages, SOCIAL_SECURITY_WAGE_BASE), 62, 1000)
           + Quantize(ficaArgs.w2_wages, 145, 10000)
           + ficaResult.se_tax + ficaResult.additional_medicare_tax
    /\ ficaResult.total_fica =
         ficaResult.ss_tax + ficaResult.medicare_tax + ficaResult.additional_medicare_tax

\* wages and SE income with all four parts and the SE deduction positive
C14_Witness ==
  /\ FicaReturned
  /\ ficaArgs.w2_wages > 0
  /\ ficaResult.se_tax > 0
  /\ ficaResult.se_tax_deduction > 0
  /\ ficaResult.additional_medicare_tax > 0
  /\ ficaResult.total_fica =
       ficaLocals.w2_ss_tax + ficaLocals.w2_medicare_tax + ficaResult.se_tax
         + ficaResult.additional_medicare_tax

\* round(0.9% x max(wages + 92.35% of SE income - threshold, 0)) with the
\* 92.35% taken at full precision: the SE income is split into whole
\* multiples of 10000 cents and a rest, the excess into whole multiples of
\* 1000 cents and a rest
AdditionalMedicareOnExactBase(w2_wages, self_employment_income, filing_status) ==
  LET rest == 9235 * (self_employment_income % 10000)
      whole == w2_wages + 9235 * (self_employment_income \div 10000)
                 + (rest \div 10000) - ADDITIONAL_MEDICARE_THRESHOLDS[filing_status]
      frac == rest % 10000
  IN  IF whole < 0 THEN 0
      ELSE 9 * (whole \div 1000)
             + RoundHalfUp(9 * (whole % 1000) * 10000 + 9 * frac, 10000000)

\* C15 as stated: the additional Medicare tax equals round(0.9% x max(wages +
\* SE taxable base - threshold, 0)) where the SE taxable base is 92.35% of the
\* SE income.
C15_AdditionalMedicareOnExactBase ==
  FicaReturned =>
    ficaResult.additional_medicare_tax =
      AdditionalMedicareOnExactBase(ficaArgs.w2_wages, ficaArgs.self_employment_income,
                                    ficaArgs.filing_status)

\* C15 (amended): the additional Medicare tax equals round(0.9% x max(wages +
\* SE taxable base - threshold, 0)) where the SE taxable base is 92.35% of the
\* SE income rounded half-up to cents; wages and SE base are combined before
\* the threshold is applied, and the tax is 0 when the combined amount is
\* exactly at the threshold.
C15_AdditionalMedicare ==
  FicaReturned =>
    LET se_base == RoundHalfUp(9235 * (ficaArgs.self_employment_income % 10000), 10000)
                     + 9235 * (ficaArgs.self_employment_income \div 10000)
        combined == ficaArgs.w2_wages + se_base
        threshold == ADDITIONAL_MEDICARE_THRESHOLDS[ficaArgs.filing_status]
    IN  /\ ficaResult.additional_medicare_tax =
             Quantize(Max(combined - threshold, 0), 9, 1000)
        /\ (combined = threshold) => ficaResult.additional_medicare_tax = 0

\* the tax is due although neither the wages nor the SE base alone exceeds
\* the threshold
C15_Witness ==
  /\ FicaReturned
  /\ ficaArgs.w2_wages > 0
  /\ ficaArgs.w2_wages <= ADDITIONAL_MEDICARE_THRESHOLDS[ficaArgs.filing_status]
  /\ ficaLocals.se_base > 0
  /\ ficaLocals.se_base <= ADDITIONAL_MEDICARE_THRESHOLDS[ficaArgs.filing_status]
  /\ ficaResult.additional_medicare_tax > 0

\* C16: the Social Security wage base is shared and consumed by wages first:
\* the wages taxed are min(wages, wage base), the SE base taxed is min(SE
\* base, max(wage base - wages, 0)), together never more than the wage base;
\* the Medicare portions apply to the full wages and the full SE base.
C16_SharedWageBase ==
  FicaReturned =>
    LET wages == ficaArgs.w2_wages
        se_base == IF ficaArgs.self_employment_income > 0
                   THEN SeBase(ficaArgs.self_employment_income) ELSE 0
    IN  /\ ficaLocals.ss_wages = Min(wages, SOCIAL_SECURITY_WAGE_BASE)
        /\ ficaLocals.se_base = se_base
        /\ ficaLocals.se_ss_wages =
             Min(se_base, Max(SOCIAL_SECURITY_WAGE_BASE - wages, 0))
        /\ ficaLocals.ss_wages + ficaLocals.se_ss_wages <= SOCIAL_SECURITY_WAGE_BASE
        /\ ficaResult.ss_tax =
             Quantize(ficaLocals.ss_wages, 62, 1000)
               + Quantize(ficaLocals.se_ss_wages, 124, 1000)
        /\ ficaResult.medicare_tax =
             Quantize(wages, 145, 10000) + Quantize(se_base, 29, 1000)

\* wages below the wage base leave less room than the SE base needs, and
\* Medicare is charged on amounts above the wage base
C16_Witness ==
  /\ FicaReturned
  /\ ficaArgs.w2_wages > 0
  /\ ficaArgs.w2_wages < SOCIAL_SECURITY_WAGE_BASE
  /\ ficaLocals.se_ss_wages > 0
  /\ ficaLocals.se_ss_wages < ficaLocals.se_base
  /\ ficaLocals.ss_wages + ficaLocals.se_ss_wages = SOCIAL_SECURITY_WAGE_BASE
  /\ ficaResult.medicare_tax >
       Quantize(SOCIAL_SECURITY_WAGE_BASE, 145, 10000)

(***************************************************************************)
(* Properties of the order of the stages of calculate_full_tax.            *)
(***************************************************************************)
\* C17: the FICA stage completes before the AGI stage, and the AGI of every
\* result reflects the SE-tax deduction of the FICA result of the same run:
\* agi = max(total gross income - (fica.se_tax_deduction + HSA + student-loan
\* interest + educator expenses + IRA + self-employed health insurance), 0)
\* with se_tax_deduction = 50% of the SE tax (in cents, half-up).
C17_AgiAfterFica ==
  (~IsIdle(stages)) =>
    /\ (pc = "agi" \/ ~IsIdle(stages.agi)) =>
         (~IsIdle(stages.fica) /\ ~IsError(stages.fica))
    /\ (pc = "done") =>
         /\ returned.fica = stages.fica
         /\ returned.fica.se_tax_deduction = Quantize(returned.fica.se_tax, 5, 10)
         /\ returned.agi.agi =
              Max(returned.income.total_gross_income
                    - (returned.fica.se_tax_deduction + taxReturn.hsa_deduction
                         + taxReturn.student_loan_interest + taxReturn.educator_expenses
                         + taxReturn.ira_deduction
                         + taxReturn.self_employed_health_insurance), 0)
         /\ returned.summary.agi = returned.agi.agi

\* a result of a self-employed filer with other above-the-line deductions
C17_Witness ==
  /\ pc = "done"
  /\ returned.fica.se_tax > 0
  /\ returned.fica.se_tax_deduction > 0
  /\ taxReturn.hsa_deduction > 0
  /\ returned.agi.agi > 0
  /\ returned.agi.agi =
       returned.income.total_gross_income
         - (returned.fica.se_tax_deduction + taxReturn.hsa_deduction
              + taxReturn.student_loan_interest + taxReturn.educator_expenses
              + taxReturn.ira_deduction + taxReturn.self_employed_health_insurance)

(***************************************************************************)
(* Properties of the deduction workflow.                                   *)
(***************************************************************************)
\* run_deduction_workflow has returned
DeductionReturned == ~IsIdle(deductionResult)

\* the itemized record of the return is present, its total is strictly
\* greater than the standard amount, and the standard deduction is not forced
ItemizedWins ==
  /\ deductionArgs.tax_return.itemized_deductions # << >>
  /\ deductionResult.itemized_total > deductionResult.standard_deduction_amount
  /\ ~deductionArgs.tax_return.force_standard_deduction

\* C18: run_deduction_workflow uses the itemized total if and only if an
\* itemized record is present, its total is strictly greater than the standard
\* amount and force_standard_deduction is false; in every other case it uses
\* the standard amount; taxable_income = max(AGI - chosen deduction, 0).
C18_DeductionChoice ==
  DeductionReturned =>
    /\ deductionResult.used_standard <=> ~ItemizedWins
    /\ deductionResult.deduction_amount =
         IF ItemizedWins THEN deductionResult.itemized_total
         ELSE deductionResult.standard_deduction_amount
    /\ deductionResult.standard_deduction_amount =
         deductionLocals.std_result.total_deduction
    /\ deductionResult.taxable_income =
         Max(deductionArgs.agi_result.agi - deductionResult.deduction_amount, 0)

\* a tie: the record is present, not forced away, and its total equals the
\* standard amount, which is used
C18_Witness ==
  /\ DeductionReturned
  /\ deductionArgs.tax_return.itemized_deductions # << >>
  /\ ~deductionArgs.tax_return.force_standard_deduction
  /\ deductionResult.itemized_total = deductionResult.standard_deduction_amount
  /\ deductionResult.used_standard
  /\ deductionResult.deduction_amount = deductionResult.standard_deduction_amount
  /\ deductionResult.taxable_income > 0

\* max(medical - 7.5% of AGI, 0) in whole cents, the 7.5% taken at full
\* precision and the difference rounded half-up: the AGI is split into whole
\* multiples of 1000 cents and a rest
MedicalExcessOnExactFloor(medical, agi) ==
  LET rest == 75 * (agi % 1000)
      above == medical - (75 * (agi \div 1000) + (rest \div 1000))
      frac == rest % 1000
  IN  IF above <= 0 THEN 0
      ELSE above - 1 + RoundHalfUp(1000 - frac, 1000)

\* the parts of the itemized total other than the medical expenses
ItemizedOtherThanMedical(item, filing_status) ==
  Min(item.state_and_local_taxes,
      IF filing_status = MFS THEN 500000 ELSE 1000000)
    + item.mortgage_interest + item.charitable + item.casualty + item.other

C20_StandardDeduction ==
  DeductionReturned =>
    LET r == deductionLocals.std_result
        tax_return == deductionArgs.tax_return
        flags == (IF tax_return.is_blind THEN 1 ELSE 0)
                   + (IF tax_return.is_over_65 THEN 1 ELSE 0)
        amount == IF tax_return.filing_status \in {SINGLE, HOH} THEN 195000 ELSE 155000
    IN  /\ ~IsError(r)
        /\ r.filing_status = tax_return.filing_status
        /\ r.base_amount = STANDARD_DEDUCTION[tax_return.filing_status]
        /\ r.additional_amount = amount * flags
        /\ r.total_deduction = r.base_amount + r.additional_amount

\* a blind filer over 65 of a status other than Single and Head of Household
C20_Witness ==
  /\ DeductionReturned
  /\ deductionArgs.tax_return.filing_status \notin {SINGLE, HOH}
  /\ deductionArgs.tax_return.is_blind
  /\ deductionArgs.tax_return.is_over_65
  /\ deductionLocals.std_result.additional_amount = 310000
  /\ deductionLocals.std_result.total_deduction =
       deductionLocals.std_result.base_amount + 310000

(***************************************************************************)
(* Properties of the persistence of a calculation.                         *)
(***************************************************************************)
\* C21: when the persistence call at the end of calculate_full_tax fails,
\* the failure is caught and logged, calculate_full_tax still returns, and
\* what it returns is the result built before the call: the result the same
\* input has when persistence succeeds.
C21_PersistenceFailureSuppressed ==
  (pc = "done" /\ warnings > 0) =>
    /\ warnings = 1
    /\ tax_calculations = << >>
    /\ returned = stages.result
    /\ \E quotient_rounded_down \in BOOLEAN :
         returned = FullTaxCalculationResult(taxReturn, quotient_rounded_down)

C21_Witness ==
  /\ pc = "done"
  /\ warnings = 1
  /\ save_calls # << >>
  /\ tax_calculations = << >>
  /\ returned.summary.total_tax > 0

\* the request body breaks a rule of TaxReturnInput
RequestInvalid(request) ==
  \/ request.filing_status \notin { SINGLE, MFJ, MFS, HOH, QSS }
  \/ \E v \in NonNegativeFields(request) : v < 0
  \/ \E i \in DOMAIN request.income_1099_div :
       request.income_1099_div[i].qualified_dividends
         > request.income_1099_div[i].ordinary_dividends

SevenStages ==
  { "income", "fica", "agi", "deductions", "tax_computation", "credits", "summary" }

\* C22: save_calculation is called once for a calculation that succeeds,
\* after all seven stages and the result they make up, with the input and the
\* result of that calculation; a request that fails validation is rejected
\* before any stage has run and save_calculation is never called for it.
C22_PersistedOnceAfterAllStages ==
  /\ Len(save_calls) <= 1
  /\ (pc = "done") =>
       save_calls = << [tax_input |-> taxReturn, result |-> returned] >>
  /\ (save_calls # << >>) =>
       /\ pc \in { "return", "done" }
       /\ \A name \in SevenStages :
            /\ ~IsIdle(stages[name])
            /\ save_calls[1].result[name] = stages[name]
       /\ save_calls[1].tax_input = taxReturn
  /\ RequestInvalid(taxReturn) =>
       /\ pc \in { "validate", "rejected" }
       /\ stages = NoStages
       /\ returned = Idle
       /\ save_calls = << >>
       /\ tax_calculations = << >>

C22_Witness ==
  /\ pc = "done"
  /\ Len(save_calls) = 1
  /\ Len(tax_calculations) = 1
  /\ tax_calculations[1].result_data = returned
  /\ tax_calculations[1].input_data = taxReturn

\* C23: on a TaxReturnInput that passes validation no stage raises and
\* calculate_full_tax returns the result of the stages: what the stages
\* produce is within the preconditions of the tools called after them.
C23_NoStageRaises ==
  ~RequestInvalid(taxReturn) =>
    /\ pc \notin { "rejected", "raised" }
    /\ \A name \in DOMAIN stages : ~IsError(stages[name])
    /\ (pc = "done") => returned = stages.result /\ ~IsIdle(returned)
    /\ ~IsIdle(stages.income) =>
         /\ stages.income.net_investment_income >= 0
         /\ stages.income.qualified_dividends <= stages.income.ordinary_dividends
         /\ stages.income.wages >= 0
         /\ stages.income.self_employment_income >= 0
    /\ ~IsIdle(stages.agi) => stages.agi.agi >= 0
    /\ ~IsIdle(stages.deductions) =>
         /\ stages.deductions.taxable_income >= 0
         /\ stages.deductions.ordinary_taxable_income >= 0
         /\ stages.deductions.preferential_qualified_dividends >= 0
         /\ stages.deductions.preferential_long_term_gains >= 0
    /\ ~IsIdle(stages.tax_computation) => stages.tax_computation.total_income_tax >= 0
    /\ ~IsIdle(stages.credits) =>
         /\ stages.credits.child_tax_credit >= 0
         /\ stages.credits.nonrefundable_ctc_applied >= 0
         /\ stages.credits.refundable_ctc_applied >= 0

\* a return with a net capital loss whose qualified dividends exceed its
\* taxable income
C23_Witness ==
  /\ pc = "done"
  /\ stages.income.long_term_gains < 0
  /\ stages.income.qualified_dividends > stages.deductions.taxable_income
  /\ stages.deductions.taxable_income > 0
  /\ returned.summary.total_tax > 0

(***************************************************************************)
(* Properties of the tools called on their own.                            *)
(***************************************************************************)
\* the tool called has raised an exception and returned nothing
ToolRejected == ~IsIdle(toolResult) /\ IsError(toolResult)

\* the arguments of the call, by tool, that must be non-negative
MustBeNonNegative ==
  CASE toolArgs.tool = "calculate_bracket_tax" -> { toolArgs.a }
    [] toolArgs.tool = "calculate_fica" -> { toolArgs.a, toolArgs.b }
    [] toolArgs.tool = "calculate_niit" -> { toolArgs.a, toolArgs.b }
    [] toolArgs.tool = "calculate_qualified_dividend_tax" -> { toolArgs.a, toolArgs.b }
    [] toolArgs.tool = "calculate_capital_gains_tax" -> { toolArgs.b }
    [] toolArgs.tool = "apply_credit" -> { toolArgs.b }

\* C24: each tool raises, and returns nothing, when an argument that must
\* be non-negative is negative, and only then; calculate_capital_gains_tax
\* with a negative long-term gain and a non-negative ordinary income returns
\* a tax of zero and an empty breakdown.
C24_NegativeArgumentRejected ==
  ~IsIdle(toolResult) =>
    /\ ToolRejected <=> (\E v \in MustBeNonNegative : v < 0)
    /\ ToolRejected => toolResult = ValueError
    /\ (toolArgs.tool = "calculate_capital_gains_tax" /\ toolArgs.a < 0 /\ toolArgs.b >= 0) =>
         /\ ~ToolRejected
         /\ toolResult.long_term_tax = 0
         /\ toolResult.breakdown = << >>

C24_Witness ==
  /\ toolArgs.tool = "calculate_niit"
  /\ toolArgs.a > 0
  /\ toolArgs.b < 0
  /\ ToolRejected

(***************************************************************************)
(* Properties of calls of calculate_full_tax that share the process.       *)
(***************************************************************************)
CallDone(c) == calls[c].pc = "done"

SaveCallsOf(c) == SelectSeq(save_calls, LAMBDA record : record.call = c)

SavedIds == { repoLog.saved[i].id : i \in DOMAIN repoLog.saved }

\* the record saved under that id
SavedUnder(id) == repoLog.saved[CHOOSE i \in DOMAIN repoLog.saved : repoLog.saved[i].id = id]

C28_TwoStepChildTaxCredit ==
  ~IsIdle(creditsResult) =>
    /\ creditsResult.nonrefundable_ctc_applied =
         Min(creditsResult.child_tax_credit, creditsArgs.total_income_tax)
    /\ creditsResult.refundable_ctc_applied =
         Min(creditsResult.child_tax_credit - creditsResult.nonrefundable_ctc_applied,
             170000 * creditsArgs.num_qualifying_children)
    /\ creditsResult.total_credits_applied =
         creditsResult.nonrefundable_ctc_applied + creditsResult.refundable_ctc_applied
    /\ creditsResult.total_credits_applied <= creditsResult.child_tax_credit
    /\ creditsLocals.nonrefundable_result.tax_before = creditsArgs.total_income_tax
    /\ creditsLocals.refundable_result.tax_before = creditsLocals.nonrefundable_result.tax_after

\* a tax below the credit: the tax is used up first, the refund is held at
\* 1,700.00 a child and part of the credit is lost
C28_Witness ==
  /\ ~IsIdle(creditsResult)
  /\ creditsResult.nonrefundable_ctc_applied > 0
  /\ creditsResult.nonrefundable_ctc_applied = creditsArgs.total_income_tax
  /\ creditsResult.refundable_ctc_applied = 170000 * creditsArgs.num_qualifying_children
  /\ creditsResult.total_credits_applied < creditsResult.child_tax_credit

(***************************************************************************)
(* Properties of the stacking of dividends and gains.                      *)
(***************************************************************************)
WholeDollars(cents) == cents % 100 = 0

\* C29: the qualified-dividend tax is the preferential tax of the
\* dividends stacked on the ordinary taxable income, the capital-gains tax
\* that of the long-term gains stacked on the ordinary taxable income plus the
\* dividends; when the three amounts are whole dollars the two taxes add up to
\* the preferential tax of dividends plus gains stacked as one amount on the
\* ordinary taxable income.
C29_DividendsThenGains ==
  ~IsIdle(taxCompResult) =>
    LET d == taxCompArgs.deductions
        fs == taxCompArgs.filing_status
    IN  /\ taxCompResult.qualified_dividend_tax =
             calculate_preferential_rate_tax(d.preferential_qualified_dividends,
                                             d.ordinary_taxable_income, fs).tax
        /\ taxCompResult.capital_gains_tax =
             calculate_preferential_rate_tax(
               d.preferential_long_term_gains,
               d.ordinary_taxable_income + d.preferential_qualified_dividends, fs).tax
        /\ (/\ WholeDollars(d.ordinary_taxable_income)
            /\ WholeDollars(d.preferential_qualified_dividends)
            /\ WholeDollars(d.preferential_long_term_gains)) =>
             taxCompResult.qualified_dividend_tax + taxCompResult.capital_gains_tax =
               calculate_preferential_rate_tax(
                 d.preferential_qualified_dividends + d.preferential_long_term_gains,
                 d.ordinary_taxable_income, fs).tax

\* dividends that start in the 0% tier and end in the 15% tier, under gains
\* that start in the 15% tier and end in the 20% tier
C29_Witness ==
  /\ ~IsIdle(taxCompResult)
  /\ WholeDollars(taxCompArgs.deductions.ordinary_taxable_income)
  /\ taxCompArgs.deductions.ordinary_taxable_income
       < CAPITAL_GAINS_THRESHOLDS[taxCompArgs.filing_status][1].upper_bound
  /\ taxCompArgs.deductions.ordinary_taxable_income
         + taxCompArgs.deductions.preferential_qualified_dividends
       > CAPITAL_GAINS_THRESHOLDS[taxCompArgs.filing_status][1].upper_bound
  /\ taxCompArgs.deductions.ordinary_taxable_income
         + taxCompArgs.deductions.preferential_qualified_dividends
       < CAPITAL_GAINS_THRESHOLDS[taxCompArgs.filing_status][2].upper_bound
  /\ taxCompArgs.deductions.ordinary_taxable_income
         + taxCompArgs.deductions.preferential_qualified_dividends
         + taxCompArgs.deductions.preferential_long_term_gains
       > CAPITAL_GAINS_THRESHOLDS[taxCompArgs.filing_status][2].upper_bound
  /\ taxCompResult.qualified_dividend_tax > 0
  /\ taxCompResult.capital_gains_tax > taxCompResult.qualified_dividend_tax

(***************************************************************************)
(* Properties of the fields of a FicaResult.                               *)
(***************************************************************************)
\* C30: ss_tax and medicare_tax of a FicaResult hold the Social Security
\* and Medicare parts of the SE tax: se_tax is what ss_tax and medicare_tax
\* exceed the taxes on the wages by, and total_fica, the sum of ss_tax,
\* medicare_tax and additional_medicare_tax, counts se_tax once: se_tax added
\* to it would be counted twice.
C30_SeTaxInsideSsAndMedicare ==
  FicaReturned =>
    LET ss_on_wages == Quantize(Min(ficaArgs.w2_wages, SOCIAL_SECURITY_WAGE_BASE), 62, 1000)
        medicare_on_wages == Quantize(ficaArgs.w2_wages, 145, 10000)
    IN  /\ ficaResult.se_tax =
             (ficaResult.ss_tax - ss_on_wages) + (ficaResult.medicare_tax - medicare_on_wages)
        /\ ficaResult.ss_tax - ss_on_wages = ficaLocals.se_ss_tax
        /\ ficaResult.medicare_tax - medicare_on_wages = ficaLocals.se_medicare_tax
        /\ ficaResult.ss_tax + ficaResult.medicare_tax + ficaResult.additional_medicare_tax
             = ficaResult.total_fica
        /\ ficaResult.total_fica - ficaResult.se_tax
             = ss_on_wages + medicare_on_wages + ficaResult.additional_medicare_tax
        /\ (ficaResult.se_tax > 0) =>
             ficaResult.total_fica + ficaResult.se_tax
               > ss_on_wages + medicare_on_wages + ficaResult.se_tax
                   + ficaResult.additional_medicare_tax

\* wages below the wage base and SE income: both parts of the SE tax are
\* positive and inside ss_tax and medicare_tax
C30_Witness ==
  /\ FicaReturned
  /\ ficaArgs.w2_wages > 0
  /\ ficaLocals.se_ss_tax > 0
  /\ ficaLocals.se_medicare_tax > 0
  /\ ficaResult.ss_tax > ficaLocals.w2_ss_tax
  /\ ficaResult.medicare_tax > ficaLocals.w2_medicare_tax

====
